---- MODULE Spec2Model ----
(***************************************************************************)
(* Model of quayctl's swarm download coordinator:                          *)
(*   - bittorrent.Client (Start, Stop, Download, GetStatus, deleteTorrent, *)
(*     alertsConsumer, findTorrent), and                                   *)
(*   - engine.DownloadTorrents with its per-torrent goroutines, the waiter *)
(*     goroutine and catchShutdownSignals.                                 *)
(*                                                                         *)
(* The specifications share the Client actions:                            *)
(*   Spec            : one run of DownloadTorrents over a batch of N       *)
(*                     torrents;                                           *)
(*   SpecAnyDuration : Spec with any value of the --duration flag;         *)
(*   SpecClient      : the exported Client driven by arbitrary callers;    *)
(*   SpecStatus      : SpecClient with a thread that samples GetStatus;    *)
(*   SpecRepeated    : SpecClient with repeated torrent-finished alerts;   *)
(*   SpecBt          : the Client of src/bittorrent/bittorrent.go;         *)
(*   SpecReporter    : a batch without seeding, with the goroutine that    *)
(*                     samples GetStatus.                                  *)
(*                                                                         *)
(* The image side of a pull has specifications of its own:                 *)
(*   SpecPlan        : retrieveTorrents (layer selection, plan building)   *)
(*                     over every manifest and engine content in bounds;   *)
(*   SpecPull        : a pull: Spec without seeding, with the main         *)
(*                     goroutine in LoadImage;                             *)
(*   SpecLayers      : torrentImage of part_007, one docker-load per       *)
(*                     layer, and SpecLayersFair with fair scheduling;     *)
(*   SpecTar         : buildDockerLoadTar as loadImage calls it;           *)
(*   SpecRW          : the channeledrw between the tar writer and the      *)
(*                     docker client;                                      *)
(*   SpecDriver      : the storage driver of the local registry.           *)
(***************************************************************************)
EXTENDS Integers, Sequences, FiniteSets, TLC

\* ------------------------------------------------------------------ bounds
MaxTasks == 2     \* largest batch, and number of threads calling Download
MaxLayers == 3    \* longest manifest history
MaxBlobs == 2     \* number of distinct blob fingerprints
ChanCap == 2      \* buffer of the channeledrw's channel (1 GiB in the code)
MaxBuf == 2       \* longest slice handed to one Write or Read call
MaxWritten == 4   \* bytes the producer writes in all

Tasks == 1..MaxTasks
\* A descriptor URL is identified by a number; in a batch, torrent i has the
\* id i and the torrentPath i (ids and URLs are distinct, see
\* buildTorrentInfoForBlob).
URLs == 1..MaxTasks
\* The threads that call Stop(): the waiter goroutine and the signal handler
\* of DownloadTorrents, and under SpecClient the thread that owns the Client.
Stoppers == {"waiter", "signal", "caller"}
\* alertsConsumer goroutines: Start() is called once by DownloadTorrents, and
\* up to twice under SpecClient.
Consumers == {1, 2}
\* seedDuration: nil, a pointer to 0, a pointer to a positive duration.
SeedDurations == {"nil", "zero", "pos"}

VARIABLES
  \* ---- bittorrent.Client
  Running,          \* Client.Running
  torrents,         \* Client.torrents: sourcePath -> handle
  hs,               \* every handle AddTorrent returned: its source, the close
                    \* count of its isFinished channel, its RemoveTorrent count
  torrentsLock,     \* Client.torrentsLock is locked
  sessionDeleted,   \* number of libtorrent.DeleteSession(bt.session) calls
  svcStops,         \* number of StopLsd/StopUpnp/StopNatpmp rounds
  posted,           \* handles whose torrent-finished alert was popped
  ac,               \* alertsConsumer goroutines, one per successful Start
  starts,           \* number of Start() calls made
  stopCalls,        \* number of Stop() calls made
  \* ---- one Download call per thread of Tasks
  pc, src, seed, hnd, err, path, keepSeeding, timer,
  tempFile,         \* "exists" while the call's temporary .torrent file does
  \* ---- Stop-capable threads
  spc,
  \* ---- err of the latest GetStatus call
  gsErr,
  \* ---- DownloadTorrents
  N,                          \* len(torrents) of the batch
  localSeedDuration,
  hasProgressBars, poolStops, \* pb.Pool and the number of pool.Stop() calls
  started,                    \* goroutines of the batch have been spawned
  torrentDownloadedChannels, torrentCompletedChannels,  \* close counts
  torrentPaths,               \* id -> path
  completed,                  \* close count of the aggregate channel
  wi,                         \* loop index of the waiter goroutine
  exited,                     \* "run", or how the process ended
  \* ---- retrieveTorrents
  manifest,                   \* v1Manifest: History and FSLayers
  engine,                     \* image ids dockerclient.HasImage finds
  option,                     \* layersOption
  insecureFlag, credentials,
  selected,                   \* result of requiredLayersAndBlobs
  plan,                       \* result of buildTorrentInfoForBlob
  spawned,                    \* ids of the per-torrent goroutines spawned
  ppc,                        \* position of the thread in retrieveTorrents
  \* ---- LoadImage (the main goroutine of a pull)
  dctxLayers,                 \* dctx.layers: the blob sum of each layer
  mpc,                        \* position of the main goroutine
  li,                         \* loop index of loadImage
  blobPaths,                  \* blob sum -> path
  \* ---- torrentImage of part_007 (one docker-load per layer)
  blobDownloadedChannels,     \* blob sum -> close count
  blobCompletedChannels,      \* blob sum -> close count
  layerCompletedChannels,     \* layer id -> close count
  gpc,                        \* blob sum -> position of its torrent goroutine
  lpc,                        \* layer index -> position of its layer goroutine
  \* ---- channeledrw
  rw,                         \* the channeledrw: channel, closed, count
  wr,                         \* the producer goroutine
  rd,                         \* the consumer
  \* ---- localServeDriver
  contentPaths, externalContentPaths,
  dres,                       \* outcome of the latest driver call
  \* ---- buildDockerLoadTar
  tw                          \* the tar.Writer: entries written, position

clientVars == <<Running, torrents, torrentsLock, hs, sessionDeleted, svcStops,
                posted, ac, starts, stopCalls>>
callVars == <<pc, src, seed, hnd, err, path, keepSeeding, timer, tempFile>>
batchVars == <<N, localSeedDuration, hasProgressBars, poolStops, started,
               torrentDownloadedChannels, torrentCompletedChannels,
               torrentPaths, completed, wi>>
planVars == <<manifest, engine, option, insecureFlag, credentials, selected,
              plan, spawned, ppc>>
asmVars == <<dctxLayers, mpc, li, blobPaths>>
layerVars == <<blobDownloadedChannels, blobCompletedChannels,
               layerCompletedChannels, gpc, lpc>>
streamVars == <<rw, wr, rd>>
driverVars == <<contentPaths, externalContentPaths, dres>>
tarVars == <<tw>>
imageVars == <<planVars, asmVars, layerVars, streamVars, driverVars, tarVars>>
vars == <<clientVars, callVars, spc, gsErr, batchVars, exited, imageVars>>

\* ------------------------------------------------------------- helpers
\* A step that the code runs between torrentsLock.Lock() and Unlock() is one
\* action that needs the mutex free (~torrentsLock) and leaves it free; a
\* return that skips the Unlock() leaves it locked.
Alive == exited = "run"

\* Calling into a destroyed libtorrent session is a use after free: the call
\* either crashes the process or goes on as if the session were there.
Outcomes == IF sessionDeleted > 0 THEN {"go", "segv"} ELSE {"go"}

\* close(ch) on a channel whose close count is n.
Close(n) == n + 1

\* deleteTorrent without delete(bt.torrents, sourcePath)
DeleteFromMapMutKeep(m, u) == m

\* Client.deleteTorrent's effect on the task map
DeleteFromMap(m, u) == [x \in DOMAIN m \ {u} |-> m[x]]

\* Client.deleteTorrent's effect on the handles: RemoveTorrent(torrent.handle)
RemoveHandle(h, u) ==
  IF u \in DOMAIN torrents
    THEN [h EXCEPT ![torrents[u]].removed = @ + 1]
    ELSE h

\* findTorrent returning the first torrent of the map, whatever its handle
findTorrentMutAny(h) ==
  IF DOMAIN torrents # {}
    THEN torrents[CHOOSE u \in DOMAIN torrents :
                    \A v \in DOMAIN torrents : u <= v]
    ELSE 0

\* Client.findTorrent: the handle of the map equal to the alert's, or 0 (nil)
findTorrent(h) ==
  IF \E u \in DOMAIN torrents : torrents[u] = h THEN h ELSE 0

\* ------------------------------------------------------------- Client.Start
\* ListenOn may fail (no free port); on success Running is set and an
\* alertsConsumer goroutine is launched.
StartOK ==
  /\ Running' = TRUE
  /\ ac' = [ac EXCEPT ![starts + 1] = [pc |-> "check", h |-> 0]]
  /\ starts' = starts + 1

\* ------------------------------------------------------------- Client.Stop
\* bt.Running = false
StopBegin(t) ==
  /\ Alive
  /\ spc[t] = "stop_begin"
  /\ Running' = FALSE
  /\ stopCalls' = stopCalls + 1
  /\ spc' = [spc EXCEPT ![t] = "stop_torrents"]
  /\ UNCHANGED <<imageVars, torrents, hs, sessionDeleted, svcStops, posted, ac,
                 starts, callVars, gsErr, batchVars, exited, torrentsLock>>

\* lock; for sourcePath := range bt.torrents { deleteTorrent(sourcePath, nil) }
StopTorrents(t) ==
  /\ Alive
  /\ ~torrentsLock
  /\ spc[t] = "stop_torrents"
  /\ \E o \in (IF DOMAIN torrents = {} THEN {"go"} ELSE Outcomes) :
       IF o = "segv"
         THEN /\ exited' = "segv"
              /\ UNCHANGED <<torrents, hs, spc>>
         ELSE /\ torrents' = <<>>
              /\ hs' = [h \in DOMAIN hs |->
                          IF \E u \in DOMAIN torrents : torrents[u] = h
                            THEN [hs[h] EXCEPT !.removed = @ + 1]
                            ELSE hs[h]]
              /\ spc' = [spc EXCEPT ![t] = "stop_session"]
              /\ UNCHANGED exited
  /\ UNCHANGED <<imageVars, Running, sessionDeleted, svcStops, posted, ac, starts,
                 stopCalls, callVars, gsErr, batchVars, torrentsLock>>

\* StopLsd, StopUpnp, StopNatpmp, then libtorrent.DeleteSession(bt.session)
StopSession(t) ==
  /\ Alive
  /\ spc[t] = "stop_session"
  /\ svcStops' = svcStops + 1
  /\ sessionDeleted' = sessionDeleted + 1
  /\ \E o \in Outcomes :
       IF o = "segv"
         THEN exited' = "segv" /\ UNCHANGED spc
         ELSE spc' = [spc EXCEPT ![t] = "stop_ret"] /\ UNCHANGED exited
  /\ UNCHANGED <<imageVars, Running, torrents, hs, posted, ac, starts, stopCalls,
                 callVars, gsErr, batchVars, torrentsLock>>

\* ------------------------------------------------------------- Client.Download
\* DownloadCall without the Running check
DownloadCallMutNoRunningCheck(p, u, s) ==
  /\ Alive
  /\ pc[p] = "idle"
  /\ src' = [src EXCEPT ![p] = u]
  /\ seed' = [seed EXCEPT ![p] = s]
  /\ pc' = [pc EXCEPT ![p] = "dl_unique"]
  /\ UNCHANGED <<imageVars, tempFile, err, clientVars, hnd, path, keepSeeding, timer, spc, gsErr,
                 batchVars, exited>>

\* Download is entered: if !bt.Running { return error }
DownloadCall(p, u, s) ==
  /\ Alive
  /\ pc[p] = "idle"
  /\ src' = [src EXCEPT ![p] = u]
  /\ seed' = [seed EXCEPT ![p] = s]
  /\ IF ~Running
       THEN /\ pc' = [pc EXCEPT ![p] = "dl_ret"]
            /\ err' = [err EXCEPT ![p] = "NotRunning"]
       ELSE /\ pc' = [pc EXCEPT ![p] = "dl_unique"]
            /\ UNCHANGED err
  /\ UNCHANGED <<imageVars, tempFile, clientVars, hnd, path, keepSeeding, timer, spc, gsErr,
                 batchVars, exited>>

\* defer os.Remove(f.Name()) dropped: the return leaves the file in place
RemoveTempFileMutNoDefer(f, p) == f

\* defer os.Remove(f.Name()): what the return of the call p does to the
\* temporary files f
RemoveTempFile(f, p) ==
  IF f[p] = "exists" THEN [f EXCEPT ![p] = "none"] ELSE f

\* The .torrent file is fetched to a temp file: TempFile, client.Do or the
\* HTTP status may fail the call.
FetchResults == {"ok", "TempFile", "Fetch", "HTTPStatus"}

\* lock; if _, found := bt.torrents[sourcePath]; found { unlock; return error };
\* unlock; then the descriptor fetch, which touches nothing shared.
DownloadUnique(p) ==
  /\ Alive
  /\ ~torrentsLock
  /\ pc[p] = "dl_unique"
  /\ IF src[p] \in DOMAIN torrents
       THEN /\ pc' = [pc EXCEPT ![p] = "dl_ret"]
            /\ err' = [err EXCEPT ![p] = "Duplicate"]
            /\ UNCHANGED tempFile
       ELSE \E r \in FetchResults :
              CASE r = "ok" ->
                     /\ pc' = [pc EXCEPT ![p] = "dl_add"]
                     /\ tempFile' = [tempFile EXCEPT ![p] = "exists"]
                     /\ UNCHANGED err
                [] r = "TempFile" ->
                     /\ pc' = [pc EXCEPT ![p] = "dl_ret"]
                     /\ err' = [err EXCEPT ![p] = r]
                     /\ UNCHANGED tempFile
                [] OTHER ->
                     /\ pc' = [pc EXCEPT ![p] = "dl_ret"]
                     /\ err' = [err EXCEPT ![p] = r]
                     /\ tempFile' = RemoveTempFile(
                                      [tempFile EXCEPT ![p] = "exists"], p)
  /\ UNCHANGED <<imageVars, clientVars, src, seed, hnd, path, keepSeeding, timer, spc,
                 gsErr, batchVars, exited>>

\* AddTorrent without the second uniqueness check
AddTorrentMutNoRecheck(p) ==
  /\ hs' = Append(hs, [src |-> src[p], isFinished |-> 0, removed |-> 0])
  /\ hnd' = [hnd EXCEPT ![p] = Len(hs) + 1]
  /\ torrents' = [u \in DOMAIN torrents \cup {src[p]} |->
                    IF u = src[p] THEN Len(hs) + 1 ELSE torrents[u]]
  /\ pc' = [pc EXCEPT ![p] = "dl_wait"]
  /\ UNCHANGED <<imageVars, err>>

\* lock; second uniqueness check; handle := AddTorrent; bt.torrents[sourcePath]
\* = &torrent{handle, make(chan)}; unlock.  errCode is a fresh error code that
\* AddTorrent is not given, so errCode.Value() is 0 on this path.
AddTorrent(p) ==
  IF src[p] \in DOMAIN torrents
    THEN /\ pc' = [pc EXCEPT ![p] = "dl_ret"]
         /\ err' = [err EXCEPT ![p] = "Duplicate"]
         /\ UNCHANGED <<hs, hnd, torrents>>
    ELSE /\ hs' = Append(hs, [src |-> src[p], isFinished |-> 0, removed |-> 0])
         /\ hnd' = [hnd EXCEPT ![p] = Len(hs) + 1]
         /\ torrents' = [u \in DOMAIN torrents \cup {src[p]} |->
                           IF u = src[p] THEN Len(hs) + 1 ELSE torrents[u]]
         /\ pc' = [pc EXCEPT ![p] = "dl_wait"]
         /\ UNCHANGED err

DownloadAdd(p) ==
  /\ Alive
  /\ ~torrentsLock
  /\ pc[p] = "dl_add"
  /\ \E o \in (IF src[p] \in DOMAIN torrents THEN {"go"} ELSE Outcomes) :
       IF o = "segv"
         THEN exited' = "segv" /\ UNCHANGED <<pc, err, hs, hnd, torrents, tempFile>>
         ELSE /\ AddTorrent(p)
              /\ tempFile' = IF src[p] \in DOMAIN torrents
                               THEN RemoveTempFile(tempFile, p)
                               ELSE tempFile
              /\ UNCHANGED exited
  /\ UNCHANGED <<imageVars, Running, sessionDeleted, svcStops, posted, ac, starts,
                 stopCalls, src, seed, path, keepSeeding, timer, spc, gsErr,
                 batchVars, torrentsLock>>

\* DownloadWait taking the nil branch for a seed duration of 0 as well
DownloadWaitMutZeroAsNil(p) ==
  /\ Alive
  /\ pc[p] = "dl_wait"
  /\ hs[hnd[p]].isFinished >= 1
  /\ \E o \in Outcomes :
       IF o = "segv"
         THEN exited' = "segv" /\ UNCHANGED <<pc, path, err, timer, tempFile>>
         ELSE /\ path' = [path EXCEPT ![p] = hs[hnd[p]].src]
              /\ err' = [err EXCEPT ![p] = "nil"]
              /\ pc' = [pc EXCEPT ![p] =
                          IF seed[p] \in {"nil", "zero"} THEN "dl_delete"
                                                         ELSE "dl_ret"]
              /\ tempFile' = IF seed[p] \in {"nil", "zero"}
                               THEN tempFile
                               ELSE RemoveTempFile(tempFile, p)
              /\ timer' = [timer EXCEPT ![p] =
                             IF seed[p] = "pos" THEN "armed" ELSE @]
              /\ UNCHANGED exited
  /\ UNCHANGED <<imageVars, clientVars, src, seed, hnd, keepSeeding, spc, gsErr,
                 batchVars>>

\* DownloadWait starting the timer for *seedDuration >= 0
DownloadWaitMutZeroArmsTimer(p) ==
  /\ Alive
  /\ pc[p] = "dl_wait"
  /\ hs[hnd[p]].isFinished >= 1
  /\ \E o \in Outcomes :
       IF o = "segv"
         THEN exited' = "segv" /\ UNCHANGED <<pc, path, err, timer, tempFile>>
         ELSE /\ path' = [path EXCEPT ![p] = hs[hnd[p]].src]
              /\ err' = [err EXCEPT ![p] = "nil"]
              /\ pc' = [pc EXCEPT ![p] =
                          IF seed[p] = "nil" THEN "dl_delete" ELSE "dl_ret"]
              /\ tempFile' = IF seed[p] = "nil"
                               THEN tempFile
                               ELSE RemoveTempFile(tempFile, p)
              /\ timer' = [timer EXCEPT ![p] =
                             IF seed[p] \in {"zero", "pos"} THEN "armed" ELSE @]
              /\ UNCHANGED exited
  /\ UNCHANGED <<imageVars, clientVars, src, seed, hnd, keepSeeding, spc, gsErr,
                 batchVars>>

\* <-torrent.isFinished; path := Clean(downloadPath + "/" +
\* handle.TorrentFile().Name()); keepSeedingChan := make(chan struct{});
\* for seedDuration > 0 the timer goroutine is started and Download returns,
\* for seedDuration == 0 Download returns.
DownloadWait(p) ==
  /\ Alive
  /\ pc[p] = "dl_wait"
  /\ hs[hnd[p]].isFinished >= 1
  /\ \E o \in Outcomes :
       IF o = "segv"
         THEN exited' = "segv" /\ UNCHANGED <<pc, path, err, timer, tempFile>>
         ELSE /\ path' = [path EXCEPT ![p] = hs[hnd[p]].src]
              /\ err' = [err EXCEPT ![p] = "nil"]
              /\ pc' = [pc EXCEPT ![p] =
                          IF seed[p] = "nil" THEN "dl_delete" ELSE "dl_ret"]
              /\ tempFile' = IF seed[p] = "nil"
                               THEN tempFile
                               ELSE RemoveTempFile(tempFile, p)
              /\ timer' = [timer EXCEPT ![p] =
                             IF seed[p] = "pos" THEN "armed" ELSE @]
              /\ UNCHANGED exited
  /\ UNCHANGED <<imageVars, clientVars, src, seed, hnd, keepSeeding, spc, gsErr,
                 batchVars>>

\* Client.deleteTorrent(sourcePath, keepSeedingChan) under the lock
deleteTorrent(p) ==
  /\ torrents' = DeleteFromMap(torrents, src[p])
  /\ hs' = RemoveHandle(hs, src[p])
  /\ keepSeeding' = [keepSeeding EXCEPT ![p] = Close(@)]

\* DownloadDelete handing deleteTorrent a nil channel, as Stop does
DownloadDeleteMutNoClose(p) ==
  /\ Alive
  /\ ~torrentsLock
  /\ pc[p] = "dl_delete"
  /\ \E o \in (IF src[p] \in DOMAIN torrents THEN Outcomes ELSE {"go"}) :
       IF o = "segv"
         THEN exited' = "segv" /\ UNCHANGED <<torrents, hs, pc, tempFile>>
         ELSE /\ torrents' = DeleteFromMap(torrents, src[p])
              /\ hs' = RemoveHandle(hs, src[p])
              /\ pc' = [pc EXCEPT ![p] = "dl_ret"]
              /\ tempFile' = RemoveTempFile(tempFile, p)
              /\ UNCHANGED exited
  /\ UNCHANGED <<imageVars, Running, sessionDeleted, svcStops, posted, ac, starts,
                 stopCalls, src, seed, hnd, err, path, keepSeeding, timer,
                 spc, gsErr, batchVars, torrentsLock>>

\* seedDuration == nil: lock; deleteTorrent; unlock; return
DownloadDelete(p) ==
  /\ Alive
  /\ ~torrentsLock
  /\ pc[p] = "dl_delete"
  /\ \E o \in (IF src[p] \in DOMAIN torrents THEN Outcomes ELSE {"go"}) :
       IF o = "segv"
         THEN exited' = "segv"
              /\ UNCHANGED <<torrents, hs, keepSeeding, pc, tempFile>>
         ELSE /\ deleteTorrent(p)
              /\ pc' = [pc EXCEPT ![p] = "dl_ret"]
              /\ tempFile' = RemoveTempFile(tempFile, p)
              /\ UNCHANGED exited
  /\ UNCHANGED <<imageVars, Running, sessionDeleted, svcStops, posted, ac, starts,
                 stopCalls, src, seed, hnd, err, path, timer, spc, gsErr,
                 batchVars, torrentsLock>>

\* go func() { time.Sleep(*seedDuration); lock; deleteTorrent; unlock }()
SeedTimer(p) ==
  /\ Alive
  /\ ~torrentsLock
  /\ timer[p] = "armed"
  /\ \E o \in (IF src[p] \in DOMAIN torrents THEN Outcomes ELSE {"go"}) :
       IF o = "segv"
         THEN exited' = "segv" /\ UNCHANGED <<torrents, hs, keepSeeding, timer>>
         ELSE /\ deleteTorrent(p)
              /\ timer' = [timer EXCEPT ![p] = "fired"]
              /\ UNCHANGED exited
  /\ UNCHANGED <<imageVars, tempFile, Running, sessionDeleted, svcStops, posted, ac, starts,
                 stopCalls, pc, src, seed, hnd, err, path, spc, gsErr,
                 batchVars, torrentsLock>>

\* ------------------------------------------------------------- Client.GetStatus
\* GetStatus with Unlock() called before the successful return only: the
\* "torrent not found" return leaves the mutex locked
GetStatusMutNoDefer(u) ==
  /\ ~torrentsLock
  /\ \E o \in (IF u \in DOMAIN torrents THEN Outcomes ELSE {"go"}) :
       IF o = "segv"
         THEN exited' = "segv" /\ UNCHANGED gsErr
         ELSE /\ gsErr' = IF u \in DOMAIN torrents THEN "nil" ELSE "notfound"
              /\ UNCHANGED exited
  /\ torrentsLock' = (u \notin DOMAIN torrents)
  /\ UNCHANGED <<imageVars, Running, torrents, hs, sessionDeleted, svcStops,
                 posted, ac, starts, stopCalls>>

\* lock; torrent, found := bt.torrents[sourcePath]; !found -> error;
\* torrent.handle.Status(0) ...; unlock.  Nothing of the client is written.
GetStatus(u) ==
  /\ ~torrentsLock
  /\ \E o \in (IF u \in DOMAIN torrents THEN Outcomes ELSE {"go"}) :
       IF o = "segv"
         THEN exited' = "segv" /\ UNCHANGED gsErr
         ELSE /\ gsErr' = IF u \in DOMAIN torrents THEN "nil" ELSE "notfound"
              /\ UNCHANGED exited
  /\ UNCHANGED <<imageVars, clientVars>>

\* ------------------------------------------------------------- alertsConsumer
\* for bt.Running { ... }
AlertsCheck(c) ==
  /\ Alive
  /\ ac[c].pc = "check"
  /\ ac' = [ac EXCEPT ![c].pc = IF Running THEN "wait" ELSE "done"]
  /\ UNCHANGED <<imageVars, Running, torrents, hs, sessionDeleted, svcStops, posted,
                 starts, stopCalls, callVars, spc, gsErr, batchVars, exited,
                 torrentsLock>>

\* WaitForAlert(250ms) times out, or PopAlert returns the torrent-finished
\* alert of a torrent: the session posts one alert per handle it was given.
\* On a deleted session the call is a use after free.
AlertsWait(c) ==
  /\ Alive
  /\ ac[c].pc = "wait"
  /\ \E o \in Outcomes :
       IF o = "segv"
         THEN exited' = "segv" /\ UNCHANGED <<ac, posted>>
         ELSE /\ \/ /\ ac' = [ac EXCEPT ![c].pc = "check"]
                    /\ UNCHANGED posted
                 \/ \E h \in DOMAIN hs \ posted :
                      /\ posted' = posted \cup {h}
                      /\ ac' = [ac EXCEPT ![c] = [pc |-> "find", h |-> h]]
              /\ UNCHANGED exited
  /\ UNCHANGED <<imageVars, Running, torrents, hs, sessionDeleted, svcStops,
                 starts, stopCalls, callVars, spc, gsErr, batchVars,
                 torrentsLock>>

\* if torrent := bt.findTorrent(handle); torrent != nil
AlertsFind(c) ==
  /\ Alive
  /\ ~torrentsLock
  /\ ac[c].pc = "find"
  /\ ac' = [ac EXCEPT ![c] =
              IF findTorrent(ac[c].h) # 0
                THEN [pc |-> "close", h |-> findTorrent(ac[c].h)]
                ELSE [pc |-> "check", h |-> 0]]
  /\ UNCHANGED <<imageVars, Running, torrents, hs, sessionDeleted, svcStops, posted,
                 starts, stopCalls, callVars, spc, gsErr, batchVars, exited,
                 torrentsLock>>

\* close(torrent.isFinished); closing a closed channel panics
AlertsClose(c) ==
  /\ Alive
  /\ ac[c].pc = "close"
  /\ hs' = [hs EXCEPT ![ac[c].h].isFinished = Close(@)]
  /\ exited' = IF hs[ac[c].h].isFinished >= 1 THEN "panic" ELSE exited
  /\ ac' = [ac EXCEPT ![c] = [pc |-> "check", h |-> 0]]
  /\ UNCHANGED <<imageVars, Running, torrents, sessionDeleted, svcStops, posted,
                 starts, stopCalls, callVars, spc, gsErr, batchVars,
                 torrentsLock>>

\* Steps of the Client that both specifications take.
ClientStep ==
  \/ \E t \in Stoppers : StopBegin(t) \/ StopTorrents(t) \/ StopSession(t)
  \/ \E p \in Tasks : \/ DownloadUnique(p)
                      \/ DownloadAdd(p)
                      \/ DownloadWait(p)
                      \/ DownloadDelete(p)
                      \/ SeedTimer(p)
  \/ \E c \in Consumers : \/ AlertsCheck(c)
                             \/ AlertsWait(c)
                             \/ AlertsFind(c)
                             \/ AlertsClose(c)

ClientInit ==
  /\ Running = FALSE
  /\ torrents = <<>>
  /\ torrentsLock = FALSE
  /\ hs = <<>>
  /\ sessionDeleted = 0
  /\ svcStops = 0
  /\ posted = {}
  /\ ac = [c \in Consumers |-> [pc |-> "none", h |-> 0]]
  /\ starts = 0
  /\ stopCalls = 0
  /\ pc = [p \in Tasks |-> "idle"]
  /\ src = [p \in Tasks |-> 0]
  /\ seed = [p \in Tasks |-> "nil"]
  /\ hnd = [p \in Tasks |-> 0]
  /\ err = [p \in Tasks |-> "none"]
  /\ path = [p \in Tasks |-> 0]
  /\ keepSeeding = [p \in Tasks |-> 0]
  /\ timer = [p \in Tasks |-> "none"]
  /\ tempFile = [p \in Tasks |-> "none"]
  /\ gsErr = "none"
  /\ exited = "run"

\* No image is being resolved: the state of the image side under the
\* specifications of the download coordinator.
NoPlan ==
  /\ manifest = [History |-> <<>>, FSLayers |-> <<>>]
  /\ engine = {}
  /\ option = "AllLayers"
  /\ insecureFlag = FALSE
  /\ credentials = ""
  /\ selected = [layers |-> <<>>, blobs |-> <<>>, queries |-> <<>>]
  /\ plan = <<>>
  /\ spawned = <<>>
  /\ ppc = "off"

NoAssembly ==
  /\ dctxLayers = <<>>
  /\ mpc = "off"
  /\ li = 1
  /\ blobPaths = <<>>

NoLayerLoad ==
  /\ blobDownloadedChannels = <<>>
  /\ blobCompletedChannels = <<>>
  /\ layerCompletedChannels = <<>>
  /\ gpc = <<>>
  /\ lpc = <<>>

NoStream ==
  /\ rw = [channel |-> <<>>, closed |-> FALSE, count |-> 0]
  /\ wr = [pc |-> "off", p |-> <<>>, index |-> 0, all |-> <<>>, sent |-> 0]
  /\ rd = [pc |-> "off", len |-> 0, i |-> 0, got |-> <<>>, eof |-> FALSE]

NoDriver ==
  /\ contentPaths = <<>>
  /\ externalContentPaths = <<>>
  /\ dres = [op |-> "none", path |-> <<>>, result |-> "none"]

NoTar == tw = [entries |-> <<>>, pc |-> "off", index |-> 1]

NoImage ==
  NoPlan /\ NoAssembly /\ NoLayerLoad /\ NoStream /\ NoDriver /\ NoTar

\* ============================================================ DownloadTorrents
Init ==
  /\ ClientInit
  /\ NoImage
  /\ N \in 0..MaxTasks
  /\ localSeedDuration \in SeedDurations
  /\ hasProgressBars \in BOOLEAN
  /\ poolStops = 0
  /\ started = FALSE
  /\ torrentDownloadedChannels = [i \in Tasks |-> 0]
  /\ torrentCompletedChannels = [i \in Tasks |-> 0]
  /\ torrentPaths = <<>>
  /\ completed = 0
  /\ wi = 1
  /\ spc = [t \in Stoppers |-> CASE t = "waiter" -> "w_wait"
                                  [] t = "signal" -> "sig_wait"
                                  [] OTHER -> "off"]

\* initBitTorrentClient: bt.Start(); an error panics.  Then the goroutines of
\* the batch are spawned.
InitBitTorrentClient ==
  /\ Alive
  /\ ~started
  /\ \/ /\ StartOK
        /\ started' = TRUE
        /\ UNCHANGED exited
     \/ /\ exited' = "panic"
        /\ UNCHANGED <<Running, ac, starts, started>>
  /\ UNCHANGED <<imageVars, torrents, hs, sessionDeleted, svcStops, posted,
                 stopCalls, callVars, spc, gsErr, N, localSeedDuration,
                 hasProgressBars, poolStops, torrentDownloadedChannels,
                 torrentCompletedChannels, torrentPaths, completed, wi,
                 torrentsLock>>

\* pool.Stop() where the code guards it with hasProgressBars
PoolStop == IF hasProgressBars THEN poolStops + 1 ELSE poolStops

\* go func(torrent) { path, keepSeeding, err := bt.Download(torrent.torrentPath,
\* torrentFolder, localSeedDuration) ...
TaskDownload(p) ==
  /\ started
  /\ p <= N
  /\ DownloadCall(p, p, localSeedDuration)

\* TaskStorePath without the test of err: the goroutine goes on after a
\* failed Download
TaskStorePathMutIgnoreErr(p) ==
  /\ Alive
  /\ started
  /\ pc[p] = "dl_ret"
  /\ torrentPaths' = [i \in DOMAIN torrentPaths \cup {p} |->
                        IF i = p THEN path[p] ELSE torrentPaths[i]]
  /\ pc' = [pc EXCEPT ![p] = "t_downloaded"]
  /\ UNCHANGED <<imageVars, tempFile, clientVars, src, seed, hnd, err, path, keepSeeding,
                 timer, spc, gsErr, N, localSeedDuration, hasProgressBars,
                 poolStops, started, torrentDownloadedChannels,
                 torrentCompletedChannels, completed, wi, exited>>

\* TaskStorePath without the torrentPaths.Set call
TaskStorePathMutNoSet(p) ==
  /\ Alive
  /\ started
  /\ pc[p] = "dl_ret"
  /\ err[p] = "nil"
  /\ pc' = [pc EXCEPT ![p] = "t_downloaded"]
  /\ UNCHANGED <<imageVars, tempFile, clientVars, src, seed, hnd, err, path, keepSeeding, timer,
                 spc, gsErr, batchVars, exited>>

\* if err != nil { pool.Stop(); log.Fatal(err) }; torrentPaths.Set(id, path)
TaskStorePath(p) ==
  /\ Alive
  /\ started
  /\ pc[p] = "dl_ret"
  /\ IF err[p] # "nil"
       THEN /\ poolStops' = PoolStop
            /\ exited' = "fatal"
            /\ UNCHANGED <<torrentPaths, pc>>
       ELSE /\ torrentPaths' = [i \in DOMAIN torrentPaths \cup {p} |->
                                  IF i = p THEN path[p] ELSE torrentPaths[i]]
            /\ pc' = [pc EXCEPT ![p] = "t_downloaded"]
            /\ UNCHANGED <<poolStops, exited>>
  /\ UNCHANGED <<imageVars, tempFile, clientVars, src, seed, hnd, err, path, keepSeeding, timer,
                 spc, gsErr, N, localSeedDuration, hasProgressBars, started,
                 torrentDownloadedChannels, torrentCompletedChannels,
                 completed, wi>>

\* TaskCloseDownloaded with the goroutine reading the loop variable instead of
\* its own argument: every goroutine closes the channel of the last torrent
TaskCloseDownloadedMutLoopVar(p) ==
  /\ Alive
  /\ pc[p] = "t_downloaded"
  /\ torrentDownloadedChannels' =
       [torrentDownloadedChannels EXCEPT ![N] = Close(@)]
  /\ pc' = [pc EXCEPT ![p] = "t_seed"]
  /\ UNCHANGED <<imageVars, tempFile, clientVars, src, seed, hnd, err, path, keepSeeding, timer,
                 spc, gsErr, N, localSeedDuration, hasProgressBars, poolStops,
                 started, torrentCompletedChannels, torrentPaths, completed,
                 wi, exited>>

\* close(torrentDownloadedChannels[torrent.id])
TaskCloseDownloaded(p) ==
  /\ Alive
  /\ pc[p] = "t_downloaded"
  /\ torrentDownloadedChannels' =
       [torrentDownloadedChannels EXCEPT ![p] = Close(@)]
  /\ pc' = [pc EXCEPT ![p] = "t_seed"]
  /\ UNCHANGED <<imageVars, tempFile, clientVars, src, seed, hnd, err, path, keepSeeding, timer,
                 spc, gsErr, N, localSeedDuration, hasProgressBars, poolStops,
                 started, torrentCompletedChannels, torrentPaths, completed,
                 wi, exited>>

\* TaskCloseCompleted with the two closes in the wrong order: completed is
\* closed once the path is stored, before downloaded is closed
TaskCloseCompletedMutEarly(p) ==
  /\ Alive
  /\ pc[p] = "t_downloaded"
  /\ torrentCompletedChannels[p] = 0
  /\ torrentCompletedChannels' =
       [torrentCompletedChannels EXCEPT ![p] = Close(@)]
  /\ UNCHANGED <<imageVars, clientVars, callVars, spc, gsErr, N, localSeedDuration,
                 hasProgressBars, poolStops, started,
                 torrentDownloadedChannels, torrentPaths, completed, wi,
                 exited>>

\* TaskCloseCompleted without the receive from keepSeeding
TaskCloseCompletedMutNoSeedWait(p) ==
  /\ Alive
  /\ pc[p] = "t_seed"
  /\ torrentCompletedChannels' =
       [torrentCompletedChannels EXCEPT ![p] = Close(@)]
  /\ pc' = [pc EXCEPT ![p] = "t_done"]
  /\ UNCHANGED <<imageVars, tempFile, clientVars, src, seed, hnd, err, path, keepSeeding, timer,
                 spc, gsErr, N, localSeedDuration, hasProgressBars, poolStops,
                 started, torrentDownloadedChannels, torrentPaths, completed,
                 wi, exited>>

\* if localSeedDuration != nil { <-keepSeeding };
\* close(torrentCompletedChannels[torrent.id])
TaskCloseCompleted(p) ==
  /\ Alive
  /\ pc[p] = "t_seed"
  /\ localSeedDuration # "nil" => keepSeeding[p] >= 1
  /\ torrentCompletedChannels' =
       [torrentCompletedChannels EXCEPT ![p] = Close(@)]
  /\ pc' = [pc EXCEPT ![p] = "t_done"]
  /\ UNCHANGED <<imageVars, tempFile, clientVars, src, seed, hnd, err, path, keepSeeding, timer,
                 spc, gsErr, N, localSeedDuration, hasProgressBars, poolStops,
                 started, torrentDownloadedChannels, torrentPaths, completed,
                 wi, exited>>

\* WaiterLoop closing the aggregate channel after its loop, before bt.Stop()
WaiterLoopMutCloseBeforeStop ==
  /\ Alive
  /\ started
  /\ spc["waiter"] = "w_wait"
  /\ IF wi > N
       THEN /\ poolStops' = PoolStop
            /\ completed' = Close(completed)
            /\ spc' = [spc EXCEPT !["waiter"] = "stop_begin"]
            /\ UNCHANGED wi
       ELSE /\ torrentCompletedChannels[wi] >= 1
            /\ wi' = wi + 1
            /\ UNCHANGED <<poolStops, spc, completed>>
  /\ UNCHANGED <<imageVars, clientVars, callVars, gsErr, N, localSeedDuration,
                 hasProgressBars, started, torrentDownloadedChannels,
                 torrentCompletedChannels, torrentPaths, exited>>

\* WaiterLoop without the channel receive in the loop body
WaiterLoopMutNoWait ==
  /\ Alive
  /\ started
  /\ spc["waiter"] = "w_wait"
  /\ IF wi > N
       THEN /\ poolStops' = PoolStop
            /\ spc' = [spc EXCEPT !["waiter"] = "stop_begin"]
            /\ UNCHANGED wi
       ELSE /\ wi' = wi + 1
            /\ UNCHANGED <<poolStops, spc>>
  /\ UNCHANGED <<imageVars, clientVars, callVars, gsErr, N, localSeedDuration,
                 hasProgressBars, started, torrentDownloadedChannels,
                 torrentCompletedChannels, torrentPaths, completed, exited>>

\* for _, torrent := range torrents { <-torrentCompletedChannels[torrent.id] };
\* after the loop: pool.Stop(), then bt.Stop() is entered.
WaiterLoop ==
  /\ Alive
  /\ started
  /\ spc["waiter"] = "w_wait"
  /\ IF wi > N
       THEN /\ poolStops' = PoolStop
            /\ spc' = [spc EXCEPT !["waiter"] = "stop_begin"]
            /\ UNCHANGED wi
       ELSE /\ torrentCompletedChannels[wi] >= 1
            /\ wi' = wi + 1
            /\ UNCHANGED <<poolStops, spc>>
  /\ UNCHANGED <<imageVars, clientVars, callVars, gsErr, N, localSeedDuration,
                 hasProgressBars, started, torrentDownloadedChannels,
                 torrentCompletedChannels, torrentPaths, completed, exited>>

\* close(completed) once bt.Stop() has returned
WaiterClose ==
  /\ Alive
  /\ spc["waiter"] = "stop_ret"
  /\ completed' = Close(completed)
  /\ spc' = [spc EXCEPT !["waiter"] = "w_done"]
  /\ UNCHANGED <<imageVars, clientVars, callVars, gsErr, N, localSeedDuration,
                 hasProgressBars, poolStops, started,
                 torrentDownloadedChannels, torrentCompletedChannels,
                 torrentPaths, wi, exited>>

\* catchShutdownSignals: <-shutdown; pool.Stop(); then bt.Stop() is entered.
SignalArrives ==
  /\ Alive
  /\ started
  /\ spc["signal"] = "sig_wait"
  /\ poolStops' = PoolStop
  /\ spc' = [spc EXCEPT !["signal"] = "stop_begin"]
  /\ UNCHANGED <<imageVars, clientVars, callVars, gsErr, N, localSeedDuration,
                 hasProgressBars, started, torrentDownloadedChannels,
                 torrentCompletedChannels, torrentPaths, completed, wi,
                 exited>>

\* log.Println("Received signal and cleanly shutdown."); os.Exit(0)
SignalExit ==
  /\ Alive
  /\ spc["signal"] = "stop_ret"
  /\ exited' = "exit0"
  /\ UNCHANGED <<imageVars, clientVars, callVars, spc, gsErr, batchVars>>

Next ==
  \/ InitBitTorrentClient
  \/ ClientStep
  \/ \E p \in Tasks : \/ TaskDownload(p)
                      \/ TaskStorePath(p)
                      \/ TaskCloseDownloaded(p)
                      \/ TaskCloseCompleted(p)
  \/ WaiterLoop
  \/ WaiterClose
  \/ SignalArrives
  \/ SignalExit

Spec == Init /\ [][Next]_vars

\* ============================================================ any --duration
\* DownloadTorrents as the seed command runs it with any value the --duration
\* flag parses to: pflag's DurationVar takes negative durations too.
SeedInputs == SeedDurations \cup {"neg"}

InitAnyDuration ==
  /\ ClientInit
  /\ NoImage
  /\ N \in 0..MaxTasks
  /\ localSeedDuration \in SeedInputs
  /\ hasProgressBars \in BOOLEAN
  /\ poolStops = 0
  /\ started = FALSE
  /\ torrentDownloadedChannels = [i \in Tasks |-> 0]
  /\ torrentCompletedChannels = [i \in Tasks |-> 0]
  /\ torrentPaths = <<>>
  /\ completed = 0
  /\ wi = 1
  /\ spc = [t \in Stoppers |-> CASE t = "waiter" -> "w_wait"
                                  [] t = "signal" -> "sig_wait"
                                  [] OTHER -> "off"]

SpecAnyDuration == InitAnyDuration /\ [][Next]_vars

\* ============================================================ Client, any caller
\* The exported Client used by arbitrary threads: the threads of Tasks each
\* make one Download call with any descriptor, at any time; the thread that
\* owns the Client calls Start(), Stop() and Start() again.
InitClient ==
  /\ ClientInit
  /\ NoImage
  /\ N = 0
  /\ localSeedDuration \in SeedDurations
  /\ hasProgressBars = FALSE
  /\ poolStops = 0
  /\ started = FALSE
  /\ torrentDownloadedChannels = [i \in Tasks |-> 0]
  /\ torrentCompletedChannels = [i \in Tasks |-> 0]
  /\ torrentPaths = <<>>
  /\ completed = 0
  /\ wi = 1
  /\ spc = [t \in Stoppers |-> IF t = "caller" THEN "c_new" ELSE "off"]

\* bt.Start(): returns the ListenOn error, or sets Running and launches the
\* alert consumer.  The owner's next call is bt.Stop(), and after it returned
\* bt.Start() once more.
ClientStart ==
  /\ Alive
  /\ spc["caller"] \in {"c_new", "stop_ret"}
  /\ \E o \in Outcomes :
       IF o = "segv"
         THEN exited' = "segv" /\ UNCHANGED <<Running, ac, starts, spc>>
         ELSE /\ \/ StartOK
                 \/ starts' = starts + 1 /\ UNCHANGED <<Running, ac>>
              /\ spc' = [spc EXCEPT !["caller"] =
                           IF @ = "c_new" THEN "stop_begin" ELSE "c_done"]
              /\ UNCHANGED exited
  /\ UNCHANGED <<imageVars, torrents, hs, sessionDeleted, svcStops, posted,
                 stopCalls, callVars, gsErr, batchVars, torrentsLock>>

\* descriptors some Download call was made for
Requested == {src[q] : q \in {r \in Tasks : pc[r] # "idle"}}

\* bt.Download(sourcePath, downloadPath, seedDuration).  The calling threads
\* are interchangeable, and so are the descriptors: threads are numbered in
\* the order of their calls, descriptors in the order of their first use.
ClientDownload(p, u) ==
  /\ ~started
  /\ \A q \in Tasks : q < p => pc[q] # "idle"
  /\ u <= Cardinality(Requested) + 1
  /\ DownloadCall(p, u, localSeedDuration)

\* bt.GetStatus(sourcePath), as the reporter goroutines of DownloadTorrents and
\* any other caller make it
ClientGetStatus(u) ==
  /\ Alive
  /\ GetStatus(u)
  /\ UNCHANGED <<callVars, spc, batchVars>>

NextClient ==
  \/ ClientStep
  \/ ClientStart
  \/ \E p \in Tasks, u \in URLs : ClientDownload(p, u)

SpecClient == InitClient /\ [][NextClient]_vars

\* The same callers, and a thread that samples GetStatus.  GetStatus writes
\* nothing of the Client, so SpecClient leaves the sampling thread out.
NextStatus ==
  \/ NextClient
  \/ \E u \in URLs : ClientGetStatus(u)

SpecStatus == InitClient /\ [][NextStatus]_vars

\* ============================================================ status reporter
\* DownloadTorrents with its reporter goroutine: every 250 ms (progress bars)
\* or 30 s (log lines) it calls bt.GetStatus(torrent.torrentPath) for each
\* torrent of the batch, until it finds the aggregate channel closed.  The
\* select takes either case when the channel is closed and the timer is due,
\* so a round of samples can still run after bt.Stop().
ReporterSample(u) ==
  /\ Alive
  /\ started
  /\ u <= N
  /\ GetStatus(u)
  /\ UNCHANGED <<callVars, spc, batchVars>>

\* The steps of Next that a batch without seeding takes (no seed timer), and
\* the reporter's.
NextReporter ==
  \/ InitBitTorrentClient
  \/ \E t \in Stoppers : StopBegin(t) \/ StopTorrents(t) \/ StopSession(t)
  \/ \E p \in Tasks : \/ DownloadUnique(p)
                      \/ DownloadAdd(p)
                      \/ DownloadWait(p)
                      \/ DownloadDelete(p)
  \/ \E c \in Consumers : \/ AlertsCheck(c)
                             \/ AlertsWait(c)
                             \/ AlertsFind(c)
                             \/ AlertsClose(c)
  \/ \E p \in Tasks : \/ TaskDownload(p)
                      \/ TaskStorePath(p)
                      \/ TaskCloseDownloaded(p)
                      \/ TaskCloseCompleted(p)
  \/ WaiterLoop
  \/ WaiterClose
  \/ SignalArrives
  \/ SignalExit
  \/ \E u \in URLs : ReporterSample(u)

\* The batch of a pull that logs its status lines: no seeding, a torrent
\* leaves the map when its Download returns.
InitReporter ==
  /\ Init
  /\ localSeedDuration = "nil"
  /\ ~hasProgressBars

SpecReporter == InitReporter /\ [][NextReporter]_vars

\* ============================================================ bittorrent.go
\* src/bittorrent/bittorrent.go holds the Client with another Download: one
\* torrentsLock section runs from the uniqueness check through the descriptor
\* fetch to the insertion in the map, and the wait reads the map again.
\* Start, Stop, deleteTorrent, alertsConsumer and findTorrent are the same.

\* Threads other than p whose next statement writes bt.torrents, and that the
\* mutex does not hold back.
MapWriters(p) ==
  IF torrentsLock THEN 0
  ELSE Cardinality({q \in Tasks \ {p} :
                      \/ (pc[q] = "dl_unique" /\ src[q] \notin DOMAIN torrents)
                      \/ (pc[q] = "dl_delete" /\ src[q] \in DOMAIN torrents)})
       + Cardinality({q \in Tasks : timer[q] = "armed"
                                    /\ src[q] \in DOMAIN torrents})
       + Cardinality({t \in Stoppers : spc[t] = "stop_torrents"
                                       /\ DOMAIN torrents # {}})

\* Lock(); found -> Unlock(), return error; TempFile or http.Get fails ->
\* return error with the mutex still locked; handle := Add_torrent(params);
\* bt.torrents[sourcePath] = &torrent{...}; Unlock()
BtDownloadAdd(p) ==
  /\ Alive
  /\ ~torrentsLock
  /\ pc[p] = "dl_unique"
  /\ IF src[p] \in DOMAIN torrents
       THEN /\ pc' = [pc EXCEPT ![p] = "dl_ret"]
            /\ err' = [err EXCEPT ![p] = "Duplicate"]
            /\ UNCHANGED <<torrentsLock, hs, hnd, torrents, exited, tempFile>>
       ELSE \E r \in {"ok", "TempFile", "Fetch"}, o \in Outcomes :
              CASE r # "ok" ->
                     /\ pc' = [pc EXCEPT ![p] = "dl_ret"]
                     /\ err' = [err EXCEPT ![p] = r]
                     /\ torrentsLock' = TRUE
                     /\ tempFile' = IF r = "TempFile"
                                      THEN tempFile
                                      ELSE RemoveTempFile(
                                        [tempFile EXCEPT ![p] = "exists"], p)
                     /\ UNCHANGED <<hs, hnd, torrents, exited>>
                [] r = "ok" /\ o = "segv" ->
                     /\ exited' = "segv"
                     /\ tempFile' = [tempFile EXCEPT ![p] = "exists"]
                     /\ UNCHANGED <<pc, err, torrentsLock, hs, hnd, torrents>>
                [] OTHER ->
                     /\ hs' = Append(hs, [src |-> src[p], isFinished |-> 0,
                                          removed |-> 0])
                     /\ hnd' = [hnd EXCEPT ![p] = Len(hs) + 1]
                     /\ torrents' = [u \in DOMAIN torrents \cup {src[p]} |->
                                       IF u = src[p] THEN Len(hs) + 1
                                                     ELSE torrents[u]]
                     /\ pc' = [pc EXCEPT ![p] = "dl_read"]
                     /\ tempFile' = [tempFile EXCEPT ![p] = "exists"]
                     /\ UNCHANGED <<err, torrentsLock, exited>>
  /\ UNCHANGED <<imageVars, Running, sessionDeleted, svcStops, posted, ac, starts,
                 stopCalls, src, seed, path, keepSeeding, timer, spc, gsErr,
                 batchVars>>

\* <-bt.torrents[sourcePath].isFinished: the map is read outside the mutex.
\* With the entry gone the read yields nil, whose field access panics; the
\* call then waits on the channel of the entry it found.  Go's runtime may
\* end the process when the read meets a write of the map.
BtDownloadRead(p) ==
  /\ Alive
  /\ pc[p] = "dl_read"
  /\ \/ /\ src[p] \in DOMAIN torrents
        /\ hnd' = [hnd EXCEPT ![p] = torrents[src[p]]]
        /\ pc' = [pc EXCEPT ![p] = "dl_wait"]
        /\ UNCHANGED exited
     \/ /\ src[p] \notin DOMAIN torrents
        /\ exited' = "panic"
        /\ UNCHANGED <<hnd, pc>>
     \/ /\ MapWriters(p) > 0
        /\ exited' = "fatal"
        /\ UNCHANGED <<hnd, pc>>
  /\ UNCHANGED <<imageVars, tempFile, clientVars, src, seed, err, path, keepSeeding, timer, spc,
                 gsErr, batchVars>>

NextBt ==
  \/ ClientStart
  \/ \E p \in Tasks, u \in URLs : ClientDownload(p, u)
  \/ \E t \in Stoppers : StopBegin(t) \/ StopTorrents(t) \/ StopSession(t)
  \/ \E p \in Tasks : \/ BtDownloadAdd(p)
                      \/ BtDownloadRead(p)
                      \/ DownloadWait(p)
                      \/ DownloadDelete(p)
                      \/ SeedTimer(p)
  \/ \E c \in Consumers : \/ AlertsCheck(c)
                             \/ AlertsWait(c)
                             \/ AlertsFind(c)
                             \/ AlertsClose(c)

SpecBt == InitClient /\ [][NextBt]_vars

\* ============================================================ repeated alerts
\* The Client when the session may post the torrent-finished alert of a
\* handle again: PopAlert returns an alert for any handle the session was
\* given, also one whose alert was popped before.
AlertsWaitRepeated(c) ==
  /\ Alive
  /\ ac[c].pc = "wait"
  /\ \E o \in Outcomes :
       IF o = "segv"
         THEN exited' = "segv" /\ UNCHANGED <<ac, posted>>
         ELSE /\ \E h \in DOMAIN hs :
                   /\ posted' = posted \cup {h}
                   /\ ac' = [ac EXCEPT ![c] = [pc |-> "find", h |-> h]]
              /\ UNCHANGED exited
  /\ UNCHANGED <<imageVars, Running, torrents, hs, sessionDeleted, svcStops,
                 starts, stopCalls, callVars, spc, gsErr, batchVars,
                 torrentsLock>>

NextRepeated ==
  \/ NextClient
  \/ \E c \in Consumers : AlertsWaitRepeated(c)

SpecRepeated == InitClient /\ [][NextRepeated]_vars

\* ============================================================ retrieveTorrents
\* Everything the download coordinator owns, untouched by the image side.
coordVars == <<clientVars, callVars, spc, gsErr, batchVars, exited>>

\* No batch is running: the state of DownloadTorrents before it is called.
NoBatch ==
  /\ N = 0
  /\ localSeedDuration = "nil"
  /\ hasProgressBars = FALSE
  /\ poolStops = 0
  /\ started = FALSE
  /\ torrentDownloadedChannels = [i \in Tasks |-> 0]
  /\ torrentCompletedChannels = [i \in Tasks |-> 0]
  /\ torrentPaths = <<>>
  /\ completed = 0
  /\ wi = 1
  /\ spc = [t \in Stoppers |-> "off"]

\* The elements of a list, and the index of the first occurrence of one.
Range(seq) == {seq[i] : i \in 1..Len(seq)}

FirstIndex(seq, x) ==
  CHOOSE i \in 1..Len(seq) : seq[i] = x /\ \A j \in 1..(i - 1) : seq[j] # x

\* Blob fingerprints (FSLayer.BlobSum) are numbers.
Blobs == 1..MaxBlobs

\* A schema1 manifest: History and FSLayers are parallel lists, index 1 (0 in
\* the code) is the topmost layer.  The layer at index i has the id i.
Manifests ==
  UNION {{[History |-> [i \in 1..n |-> i], FSLayers |-> f] :
            f \in [1..n -> Blobs]} : n \in 0..MaxLayers}

LayersOptions == {"AllLayers", "MissingLayers"}

\* dockerclient.HasImage(imageId): found.ID == imageId
HasImage(imageId) == imageId \in engine

\* loadLayerInfo(layers): parentInfo is the next entry of the slice handed in,
\* nil (0) for its last entry.  index counts from 1 here, from 0 in the code.
loadLayerInfo(layers) ==
  [index \in 1..Len(layers) |->
     [ID |-> layers[index],
      index |-> index,
      parentID |-> IF index + 1 <= Len(layers) THEN layers[index + 1] ELSE 0]]

\* The ids of a list of layerInfo.
LayerIDs(ls) == [i \in 1..Len(ls) |-> ls[i].ID]

\* The loop of requiredLayersAndBlobs from `index` on; queries lists the ids
\* HasImage was called with.
RECURSIVE missingLayersFrom(_, _, _, _)
missingLayersFrom(m, index, blobsToDownload, queries) ==
  IF index > Len(m.History)
    THEN [layers |-> loadLayerInfo(m.History),
          blobs |-> m.FSLayers,
          queries |-> queries]
    ELSE IF HasImage(m.FSLayers[index])
      THEN [layers |-> loadLayerInfo(SubSeq(m.History, 1, index - 1)),
            blobs |-> blobsToDownload,
            queries |-> Append(queries, m.FSLayers[index])]
      ELSE missingLayersFrom(m, index + 1,
                             Append(blobsToDownload, m.FSLayers[index]),
                             Append(queries, m.FSLayers[index]))

\* requiredLayersAndBlobs without the return at the first layer found
requiredLayersAndBlobsMutNoStop(m, opt) ==
  [layers |-> loadLayerInfo(m.History),
   blobs |-> m.FSLayers,
   queries |-> IF opt = "AllLayers" THEN <<>> ELSE m.FSLayers]

\* requiredLayersAndBlobs(manifest, option)
requiredLayersAndBlobs(m, opt) ==
  IF opt = "AllLayers"
    THEN [layers |-> loadLayerInfo(m.History),
          blobs |-> m.FSLayers,
          queries |-> <<>>]
    ELSE missingLayersFrom(m, 1, <<>>, <<>>)

\* torrentURL.String(): scheme, user info, host and the path
\* /c1/torrent/<repo>/blobs/<blobSum>, kept as its components.
torrentURL(blobSum) ==
  [Scheme |-> IF insecureFlag THEN "http" ELSE "https",
   User |-> credentials,
   Host |-> "host",
   Path |-> <<"c1", "torrent", "repo", "blobs", blobSum>>]

\* torrentInfo{blobSum, torrentURL.String(), blobSum}
torrentInfo(blobSum) ==
  [id |-> blobSum, torrentPath |-> torrentURL(blobSum), title |-> blobSum]

\* The loop of buildTorrentInfoForBlob from index i on.
RECURSIVE buildTorrentInfoFrom(_, _, _, _)
buildTorrentInfoFrom(blobs, i, acc, blobSet) ==
  IF i > Len(blobs)
    THEN acc
    ELSE IF blobs[i] \in blobSet
      THEN buildTorrentInfoFrom(blobs, i + 1, acc, blobSet)
      ELSE buildTorrentInfoFrom(blobs, i + 1,
                                Append(acc, torrentInfo(blobs[i])),
                                blobSet \cup {blobs[i]})

\* buildTorrentInfoForBlob without the blobSet lookup
buildTorrentInfoForBlobMutNoSet(blobs) ==
  [i \in 1..Len(blobs) |-> torrentInfo(blobs[i])]

\* buildTorrentInfoForBlob(named, blobs, credentials, insecureFlag)
buildTorrentInfoForBlob(blobs) == buildTorrentInfoFrom(blobs, 1, <<>>, {})

InitPlan ==
  /\ ClientInit
  /\ NoBatch
  /\ manifest \in Manifests
  /\ engine \in SUBSET Blobs
  /\ option \in LayersOptions
  /\ insecureFlag \in BOOLEAN
  /\ credentials \in {"", "user"}
  /\ selected = [layers |-> <<>>, blobs |-> <<>>, queries |-> <<>>]
  /\ plan = <<>>
  /\ spawned = <<>>
  /\ ppc = "manifest"
  /\ NoAssembly /\ NoLayerLoad /\ NoStream /\ NoDriver /\ NoTar

\* layers, blobs := dth.requiredLayersAndBlobs(v1Manifest, option)
SelectLayers ==
  /\ ppc = "manifest"
  /\ selected' = requiredLayersAndBlobs(manifest, option)
  /\ ppc' = "selected"
  /\ UNCHANGED <<coordVars, asmVars, layerVars, streamVars, driverVars, tarVars,
                 manifest, engine, option, insecureFlag,
                 credentials, plan, spawned>>

\* if option == MissingLayers && len(layers) == 0 { return []torrentInfo{} };
\* return dth.buildTorrentInfoForBlob(named, blobs, credentials, insecureFlag)
BuildPlan ==
  /\ ppc = "selected"
  /\ plan' = IF option = "MissingLayers" /\ Len(selected.layers) = 0
               THEN <<>>
               ELSE buildTorrentInfoForBlob(selected.blobs)
  /\ ppc' = "planned"
  /\ UNCHANGED <<coordVars, asmVars, layerVars, streamVars, driverVars, tarVars,
                 manifest, engine, option, insecureFlag,
                 credentials, selected, spawned>>

\* DownloadTorrents: for _, torrent := range torrents { go func(torrent) ... }
SpawnBatch ==
  /\ ppc = "planned"
  /\ spawned' = [i \in 1..Len(plan) |-> plan[i].id]
  /\ ppc' = "batch"
  /\ UNCHANGED <<coordVars, asmVars, layerVars, streamVars, driverVars, tarVars,
                 manifest, engine, option, insecureFlag,
                 credentials, selected, plan>>

NextPlan ==
  \/ SelectLayers
  \/ BuildPlan
  \/ SpawnBatch

SpecPlan == InitPlan /\ [][NextPlan]_vars

\* ============================================================ LoadImage (pull)
\* torrentPullRun: RetrieveTorrents(image, missingLayers), DownloadTorrents
\* with torrentNoSeed, LoadImage, "Successfully pulled image".  The torrent of
\* blob i has the id i; dctxLayers gives for each selected layer its blob.
\* Every selected layer's blob has a torrent and every torrent is the blob of
\* a selected layer, in order of first occurrence (buildTorrentInfoForBlob);
\* the bottom layer may share its blob with a layer above it.
LayerLists(n) ==
  {[i \in 1..n |-> i]} \cup
  {[i \in 1..(n + 1) |-> IF i <= n THEN i ELSE b] : b \in 1..n}

InitPull ==
  /\ ClientInit
  /\ NoPlan /\ NoLayerLoad /\ NoStream /\ NoDriver /\ NoTar
  /\ N \in 0..MaxTasks
  /\ localSeedDuration = "nil"
  /\ hasProgressBars \in BOOLEAN
  /\ poolStops = 0
  /\ started = FALSE
  /\ torrentDownloadedChannels = [i \in Tasks |-> 0]
  /\ torrentCompletedChannels = [i \in Tasks |-> 0]
  /\ torrentPaths = <<>>
  /\ completed = 0
  /\ wi = 1
  /\ spc = [t \in Stoppers |-> CASE t = "waiter" -> "w_wait"
                                  [] t = "signal" -> "sig_wait"
                                  [] OTHER -> "off"]
  /\ dctxLayers \in LayerLists(N)
  /\ mpc = "m_layers"
  /\ li = 1
  /\ blobPaths = <<>>

\* blobPaths[blobSum] = blobPath.(string)
SetBlobPath(blobSum) ==
  [b \in DOMAIN blobPaths \cup {blobSum} |->
     IF b = blobSum THEN torrentPaths[blobSum] ELSE blobPaths[b]]

\* LoadImageWait without the receive from the downloaded channel
LoadImageWaitMutNoReceive ==
  /\ Alive
  /\ started
  /\ mpc = "m_layers"
  /\ IF Len(dctxLayers) = 0
       THEN /\ exited' = "panic"
            /\ UNCHANGED <<li, blobPaths, poolStops, mpc>>
       ELSE IF li > Len(dctxLayers)
         THEN /\ poolStops' = PoolStop
              /\ mpc' = "m_loading"
              /\ UNCHANGED <<li, blobPaths, exited>>
         ELSE /\ IF dctxLayers[li] \in DOMAIN torrentPaths
                   THEN /\ blobPaths' = SetBlobPath(dctxLayers[li])
                        /\ li' = li + 1
                        /\ UNCHANGED exited
                   ELSE /\ exited' = "panic"
                        /\ UNCHANGED <<li, blobPaths>>
              /\ UNCHANGED <<poolStops, mpc>>
  /\ UNCHANGED <<clientVars, callVars, spc, gsErr, N, localSeedDuration,
                 hasProgressBars, started, torrentDownloadedChannels,
                 torrentCompletedChannels, torrentPaths, completed, wi,
                 planVars, layerVars, streamVars, driverVars, tarVars, dctxLayers>>

\* loadImage, one step of the main goroutine up to its next receive:
\*   dctx := ctx.(dockerContext)  -- retrieveTorrents returns a nil ctx when
\*     no layer is selected, and the type assertion panics on it;
\*   for _, layer := range layers { <-DownloadedChannels[blobSum];
\*     blobPath, _ := TorrentPaths.Get(blobSum);
\*     blobPaths[blobSum] = blobPath.(string) }  -- panics on a missing key;
\*   if HasProgressBars { Pool.Stop() }; DockerLoad(.., blobPaths, ..) is
\*     entered.
LoadImageWait ==
  /\ Alive
  /\ started
  /\ mpc = "m_layers"
  /\ IF Len(dctxLayers) = 0
       THEN /\ exited' = "panic"
            /\ UNCHANGED <<li, blobPaths, poolStops, mpc>>
       ELSE IF li > Len(dctxLayers)
         THEN /\ poolStops' = PoolStop
              /\ mpc' = "m_loading"
              /\ UNCHANGED <<li, blobPaths, exited>>
         ELSE /\ torrentDownloadedChannels[dctxLayers[li]] >= 1
              /\ IF dctxLayers[li] \in DOMAIN torrentPaths
                   THEN /\ blobPaths' = SetBlobPath(dctxLayers[li])
                        /\ li' = li + 1
                        /\ UNCHANGED exited
                   ELSE /\ exited' = "panic"
                        /\ UNCHANGED <<li, blobPaths>>
              /\ UNCHANGED <<poolStops, mpc>>
  /\ UNCHANGED <<clientVars, callVars, spc, gsErr, N, localSeedDuration,
                 hasProgressBars, started, torrentDownloadedChannels,
                 torrentCompletedChannels, torrentPaths, completed, wi,
                 planVars, layerVars, streamVars, driverVars, tarVars, dctxLayers>>

\* DockerLoad returns: an error is log.Fatal in torrentPullRun; otherwise
\* "Successfully pulled image" is logged and the command returns.
DockerLoadReturn ==
  /\ Alive
  /\ mpc = "m_loading"
  /\ \/ exited' = "fatal" /\ UNCHANGED mpc
     \/ exited' = "pulled" /\ mpc' = "m_done"
  /\ UNCHANGED <<clientVars, callVars, spc, gsErr, batchVars, planVars,
                 layerVars, streamVars, driverVars, tarVars, dctxLayers, li,
                 blobPaths>>

\* With torrentNoSeed the seed duration is nil and Download arms no timer.
NextPull ==
  \/ InitBitTorrentClient
  \/ \E t \in Stoppers : StopBegin(t) \/ StopTorrents(t) \/ StopSession(t)
  \/ \E p \in Tasks : \/ DownloadUnique(p)
                      \/ DownloadAdd(p)
                      \/ DownloadWait(p)
                      \/ DownloadDelete(p)
  \/ \E c \in Consumers : \/ AlertsCheck(c)
                             \/ AlertsWait(c)
                             \/ AlertsFind(c)
                             \/ AlertsClose(c)
  \/ \E p \in Tasks : \/ TaskDownload(p)
                      \/ TaskStorePath(p)
                      \/ TaskCloseDownloaded(p)
                      \/ TaskCloseCompleted(p)
  \/ WaiterLoop
  \/ WaiterClose
  \/ SignalArrives
  \/ SignalExit
  \/ LoadImageWait
  \/ DockerLoadReturn

SpecPull == InitPull /\ [][NextPull]_vars

\* ============================================================ torrentImage, per-layer load
\* torrentImage of part_007 with dockerPerformLoad and torrentNoSeed: one
\* goroutine per torrent and one per selected layer; bt.Download is the call
\* that returns a path or an error.  The selection is any result
\* requiredLayersAndBlobs can return: the first k entries of the manifest.
InitLayers ==
  /\ ClientInit
  /\ NoBatch
  /\ NoAssembly /\ NoStream /\ NoDriver /\ NoTar
  /\ manifest \in Manifests
  /\ engine = {}
  /\ option = "MissingLayers"
  /\ insecureFlag = FALSE
  /\ credentials = ""
  /\ \E k \in 1..Len(manifest.History) :
       selected = [layers |-> loadLayerInfo(SubSeq(manifest.History, 1, k)),
                   blobs |-> SubSeq(manifest.FSLayers, 1, k),
                   queries |-> <<>>]
  /\ plan = buildTorrentInfoForBlob(selected.blobs)
  /\ spawned = [i \in 1..Len(plan) |-> plan[i].id]
  /\ ppc = "batch"
  /\ blobDownloadedChannels = [b \in Range(spawned) |-> 0]
  /\ blobCompletedChannels = [b \in Range(spawned) |-> 0]
  /\ layerCompletedChannels = [id \in Range(LayerIDs(selected.layers)) |-> 0]
  /\ gpc = [b \in Range(spawned) |-> "download"]
  /\ lpc = [i \in 1..Len(selected.layers) |-> "wait_blob"]

\* manifest.FSLayers[layer.index].BlobSum.String()
LayerBlobSum(i) == manifest.FSLayers[selected.layers[i].index]

\* path, keepSeeding, err := bt.Download(...); if err != nil { log.Fatal(err) };
\* blobPaths.Set(torrent.blobSum, path)
BlobDownload(b) ==
  /\ Alive
  /\ b \in DOMAIN gpc
  /\ gpc[b] = "download"
  /\ \/ /\ exited' = "fatal"
        /\ UNCHANGED <<blobPaths, gpc>>
     \/ /\ blobPaths' = [x \in DOMAIN blobPaths \cup {b} |->
                           IF x = b THEN <<"path", b>> ELSE blobPaths[x]]
        /\ gpc' = [gpc EXCEPT ![b] = "downloaded"]
        /\ UNCHANGED exited
  /\ UNCHANGED <<clientVars, callVars, spc, gsErr, batchVars, planVars,
                 streamVars, driverVars, tarVars, dctxLayers, mpc, li,
                 blobDownloadedChannels, blobCompletedChannels,
                 layerCompletedChannels, lpc>>

\* close(blobDownloadedChannels[torrent.blobSum])
BlobCloseDownloaded(b) ==
  /\ Alive
  /\ b \in DOMAIN gpc
  /\ gpc[b] = "downloaded"
  /\ blobDownloadedChannels' = [blobDownloadedChannels EXCEPT ![b] = Close(@)]
  /\ gpc' = [gpc EXCEPT ![b] = "seed"]
  /\ UNCHANGED <<coordVars, planVars, asmVars, streamVars, driverVars, tarVars,
                 blobCompletedChannels, layerCompletedChannels, lpc>>

\* localSeedDuration is nil: close(blobCompletedChannels[torrent.blobSum])
BlobCloseCompleted(b) ==
  /\ Alive
  /\ b \in DOMAIN gpc
  /\ gpc[b] = "seed"
  /\ blobCompletedChannels' = [blobCompletedChannels EXCEPT ![b] = Close(@)]
  /\ gpc' = [gpc EXCEPT ![b] = "done"]
  /\ UNCHANGED <<coordVars, planVars, asmVars, streamVars, driverVars, tarVars,
                 blobDownloadedChannels, layerCompletedChannels, lpc>>

\* <-blobDownloadedChannels[blobSum]
LayerWaitBlob(i) ==
  /\ Alive
  /\ i \in DOMAIN lpc
  /\ lpc[i] = "wait_blob"
  /\ blobDownloadedChannels[LayerBlobSum(i)] >= 1
  /\ lpc' = [lpc EXCEPT ![i] = "wait_parent"]
  /\ UNCHANGED <<coordVars, planVars, asmVars, streamVars, driverVars, tarVars,
                 blobDownloadedChannels, blobCompletedChannels,
                 layerCompletedChannels, gpc>>

\* LayerWaitParent with the parent taken from the whole history instead of
\* the selection: the bottom selected layer receives from the channel of a
\* layer that has none (a nil channel)
LayerWaitParentMutFullHistory(i) ==
  /\ Alive
  /\ i \in DOMAIN lpc
  /\ lpc[i] = "wait_parent"
  /\ i + 1 <= Len(manifest.History) =>
       /\ manifest.History[i + 1] \in DOMAIN layerCompletedChannels
       /\ layerCompletedChannels[manifest.History[i + 1]] >= 1
  /\ IF LayerBlobSum(i) \in DOMAIN blobPaths
       THEN lpc' = [lpc EXCEPT ![i] = "loading"] /\ UNCHANGED exited
       ELSE exited' = "panic" /\ UNCHANGED lpc
  /\ UNCHANGED <<clientVars, callVars, spc, gsErr, batchVars, planVars,
                 asmVars, streamVars, driverVars, tarVars,
                 blobDownloadedChannels, blobCompletedChannels,
                 layerCompletedChannels, gpc>>

\* LayerWaitParent without the receive from the parent's channel
LayerWaitParentMutNoReceive(i) ==
  /\ Alive
  /\ i \in DOMAIN lpc
  /\ lpc[i] = "wait_parent"
  /\ IF LayerBlobSum(i) \in DOMAIN blobPaths
       THEN lpc' = [lpc EXCEPT ![i] = "loading"] /\ UNCHANGED exited
       ELSE exited' = "panic" /\ UNCHANGED lpc
  /\ UNCHANGED <<clientVars, callVars, spc, gsErr, batchVars, planVars,
                 asmVars, streamVars, driverVars, tarVars, blobDownloadedChannels,
                 blobCompletedChannels, layerCompletedChannels, gpc>>

\* if layer.parentInfo != nil { <-layerCompletedChannels[layer.parentInfo.ID] };
\* layerPath, _ := blobPaths.Get(blobSum); DockerLoadLayer(named, manifest,
\* layer.index, layerPath.(string)) is entered.  layerPath.(string) panics
\* on a missing key.
LayerWaitParent(i) ==
  /\ Alive
  /\ i \in DOMAIN lpc
  /\ lpc[i] = "wait_parent"
  /\ selected.layers[i].parentID # 0 =>
       layerCompletedChannels[selected.layers[i].parentID] >= 1
  /\ IF LayerBlobSum(i) \in DOMAIN blobPaths
       THEN lpc' = [lpc EXCEPT ![i] = "loading"] /\ UNCHANGED exited
       ELSE exited' = "panic" /\ UNCHANGED lpc
  /\ UNCHANGED <<clientVars, callVars, spc, gsErr, batchVars, planVars,
                 asmVars, streamVars, driverVars, tarVars, blobDownloadedChannels,
                 blobCompletedChannels, layerCompletedChannels, gpc>>

\* DockerLoadLayer returns: if err != nil { log.Fatal(err) };
\* close(layerCompletedChannels[layer.info.ID])
LayerLoaded(i) ==
  /\ Alive
  /\ i \in DOMAIN lpc
  /\ lpc[i] = "loading"
  /\ \/ /\ exited' = "fatal"
        /\ UNCHANGED <<layerCompletedChannels, lpc>>
     \/ /\ layerCompletedChannels' =
             [layerCompletedChannels EXCEPT ![selected.layers[i].ID] = Close(@)]
        /\ lpc' = [lpc EXCEPT ![i] = "done"]
        /\ UNCHANGED exited
  /\ UNCHANGED <<clientVars, callVars, spc, gsErr, batchVars, planVars,
                 asmVars, streamVars, driverVars, tarVars, blobDownloadedChannels,
                 blobCompletedChannels, gpc>>

\* The main goroutine: for each torrent <-blobCompletedChannels[..], for each
\* layer <-layerCompletedChannels[..], return nil; the command returns.
TorrentImageReturn ==
  /\ Alive
  /\ \A b \in DOMAIN blobCompletedChannels : blobCompletedChannels[b] >= 1
  /\ \A id \in DOMAIN layerCompletedChannels : layerCompletedChannels[id] >= 1
  /\ exited' = "pulled"
  /\ UNCHANGED <<clientVars, callVars, spc, gsErr, batchVars, imageVars>>

NextLayers ==
  \/ \E b \in Blobs : \/ BlobDownload(b)
                      \/ BlobCloseDownloaded(b)
                      \/ BlobCloseCompleted(b)
  \/ \E i \in 1..MaxLayers : \/ LayerWaitBlob(i)
                             \/ LayerWaitParent(i)
                             \/ LayerLoaded(i)
  \/ TorrentImageReturn

SpecLayers == InitLayers /\ [][NextLayers]_vars

\* Every goroutine that can run does run: a behaviour does not stop while a
\* step of some goroutine is possible.
SpecLayersFair == SpecLayers /\ WF_vars(NextLayers)

\* ============================================================ channeledrw
\* DockerLoad: a goroutine writes the tar with Write calls and then calls
\* DoneWriting (or panics on an error of buildDockerLoadTar); the docker
\* client reads it with Read calls.
\*   wr.all  : the bytes handed to Write so far, wr.sent of them are sent;
\*   rd.got  : the bytes Read has stored into its callers' slices.
Bytes == {"a", "b"}

Slices == UNION {[1..n -> Bytes] : n \in 0..MaxBuf}

InitRW ==
  /\ ClientInit
  /\ NoBatch
  /\ NoPlan /\ NoAssembly /\ NoLayerLoad /\ NoDriver /\ NoTar
  /\ rw = [channel |-> <<>>, closed |-> FALSE, count |-> 0]
  /\ wr = [pc |-> "idle", p |-> <<>>, index |-> 0, all |-> <<>>, sent |-> 0]
  /\ rd = [pc |-> "idle", len |-> 0, i |-> 0, got |-> <<>>, eof |-> FALSE]

\* Write(p) is called: var index = 0
WriteCall(p) ==
  /\ Alive
  /\ wr.pc = "idle"
  /\ Len(wr.all) + Len(p) <= MaxWritten
  /\ wr' = [wr EXCEPT !.pc = "writing", !.p = p, !.index = 0,
                      !.all = wr.all \o p]
  /\ UNCHANGED <<coordVars, planVars, asmVars, layerVars, driverVars, tarVars, rw, rd>>

\* WriteByte that drops the byte when the buffer is full
WriteByteMutDrop ==
  /\ Alive
  /\ wr.pc = "writing"
  /\ IF wr.index = Len(wr.p)
       THEN /\ wr' = [wr EXCEPT !.pc = "idle"]
            /\ UNCHANGED rw
       ELSE /\ rw' = IF Len(rw.channel) < ChanCap
                       THEN [rw EXCEPT !.channel =
                                         Append(@, wr.p[wr.index + 1])]
                       ELSE rw
            /\ wr' = [wr EXCEPT !.index = @ + 1, !.sent = @ + 1]
  /\ UNCHANGED <<coordVars, planVars, asmVars, layerVars, driverVars, tarVars, rd>>

\* for _, b := range p { c.channel <- b; index = index + 1 }; return index, nil
\* The send blocks while the buffer is full.
WriteByte ==
  /\ Alive
  /\ wr.pc = "writing"
  /\ IF wr.index = Len(wr.p)
       THEN /\ wr' = [wr EXCEPT !.pc = "idle"]
            /\ UNCHANGED rw
       ELSE /\ Len(rw.channel) < ChanCap
            /\ rw' = [rw EXCEPT !.channel = Append(@, wr.p[wr.index + 1])]
            /\ wr' = [wr EXCEPT !.index = @ + 1, !.sent = @ + 1]
  /\ UNCHANGED <<coordVars, planVars, asmVars, layerVars, driverVars, tarVars, rd>>

\* buildDockerLoadTar returned nil: rw.DoneWriting(), close(c.channel)
DoneWriting ==
  /\ Alive
  /\ wr.pc = "idle"
  /\ rw' = [rw EXCEPT !.closed = TRUE]
  /\ wr' = [wr EXCEPT !.pc = "done"]
  /\ UNCHANGED <<coordVars, planVars, asmVars, layerVars, driverVars, tarVars, rd>>

\* buildDockerLoadTar returned an error: panic(terr)
WriterPanics ==
  /\ Alive
  /\ wr.pc = "idle"
  /\ exited' = "panic"
  /\ UNCHANGED <<clientVars, callVars, spc, gsErr, batchVars, imageVars>>

\* Read(p) is called with len(p) = n
ReadCall(n) ==
  /\ Alive
  /\ rd.pc = "idle"
  /\ rd' = [rd EXCEPT !.pc = "reading", !.len = n, !.i = 0]
  /\ UNCHANGED <<coordVars, planVars, asmVars, layerVars, driverVars, tarVars, rw, wr>>

\* for i := 0; i < len(p); i++ { b, ok := <-c.channel; if !ok { return i,
\* io.EOF }; p[i] = b; c.count = c.count + 1 }; return len(p), nil
\* The receive takes the buffered bytes first, reports !ok once the channel
\* is closed and empty, and blocks while it is open and empty.
ReadByte ==
  /\ Alive
  /\ rd.pc = "reading"
  /\ IF rd.i = rd.len
       THEN /\ rd' = [rd EXCEPT !.pc = "idle"]
            /\ UNCHANGED rw
       ELSE IF rw.channel # <<>>
         THEN /\ rd' = [rd EXCEPT !.i = @ + 1,
                                  !.got = Append(@, Head(rw.channel))]
              /\ rw' = [rw EXCEPT !.channel = Tail(@), !.count = @ + 1]
         ELSE /\ rw.closed
              /\ rd' = [rd EXCEPT !.pc = "idle", !.eof = TRUE]
              /\ UNCHANGED rw
  /\ UNCHANGED <<coordVars, planVars, asmVars, layerVars, driverVars, tarVars, wr>>

NextRW ==
  \/ \E p \in Slices : WriteCall(p)
  \/ WriteByte
  \/ DoneWriting
  \/ WriterPanics
  \/ \E n \in 0..MaxBuf : ReadCall(n)
  \/ ReadByte

SpecRW == InitRW /\ [][NextRW]_vars

\* ============================================================ localServeDriver
\* The storage driver of the local registry: localServeDriverFactory.Create
\* fills the two path maps, the registry's handlers call the driver.
\* A request path is the list of its components.

\* A path component, and the hex form of a sha256 digest: of the manifest
\* JSON or of blob b.
Comp(name) == <<name, 0>>
ManifestSha == <<"manifest", 0>>
BlobSha(b) == <<"blob", b>>

\* addLink: /docker/registry/v2/repositories/<repository>/<location>
linkPath(location) == <<Comp("repositories"), Comp("repo")>> \o location

\* addDigestLink: <prefix>/sha256/<hexSha>/link
digestLinkPath(prefix, hexSha) ==
  linkPath(<<Comp(prefix), Comp("sha256"), hexSha, Comp("link")>>)

\* /docker/registry/v2/blobs/sha256/<hexSha[0:2]>/<hexSha>/data
dataPath(hexSha) ==
  <<Comp("blobs"), Comp("sha256"), Comp("0:2"), hexSha, Comp("data")>>

\* _manifests/tags/<tagName>/current/link
tagLinkPath(tagName) ==
  linkPath(<<Comp("_manifests/tags"), Comp(tagName), Comp("current/link")>>)

\* The maps after Create: the manifest as linked data, the tag link, and one
\* linked file per entry of layerPaths.
CreatedContentPaths(tagName, layerPaths) ==
  LET layerLinks == {digestLinkPath("_layers", BlobSha(b)) :
                       b \in DOMAIN layerPaths}
      keys == {digestLinkPath("_manifests/revisions", ManifestSha),
               dataPath(ManifestSha),
               tagLinkPath(tagName)} \cup layerLinks
  IN [k \in keys |->
        IF k = dataPath(ManifestSha) THEN <<"json", ManifestSha>>
        ELSE IF k \in layerLinks THEN <<"sha256", k[5]>>
        ELSE <<"sha256", ManifestSha>>]

CreatedExternalContentPaths(layerPaths) ==
  [k \in {dataPath(BlobSha(b)) : b \in DOMAIN layerPaths} |->
     layerPaths[k[4][2]]]

TagNames == {"latest", "v1"}

\* The paths a handler asks about: those of every possible driver and one
\* that no driver knows.
RequestPaths ==
  {digestLinkPath("_manifests/revisions", ManifestSha), dataPath(ManifestSha)}
  \cup {tagLinkPath(t) : t \in TagNames}
  \cup {digestLinkPath("_layers", BlobSha(b)) : b \in Blobs}
  \cup {dataPath(BlobSha(b)) : b \in Blobs}
  \cup {<<Comp("unknown")>>}

InitDriver ==
  /\ ClientInit
  /\ NoBatch
  /\ NoPlan /\ NoAssembly /\ NoLayerLoad /\ NoStream /\ NoTar
  /\ \E tagName \in TagNames, S \in SUBSET Blobs :
       /\ contentPaths =
            CreatedContentPaths(tagName, [b \in S |-> <<"file", b>>])
       /\ externalContentPaths =
            CreatedExternalContentPaths([b \in S |-> <<"file", b>>])
  /\ dres = [op |-> "none", path |-> <<>>, result |-> "none"]

\* A call of the driver leaves everything but dres as it is.
driverRest == <<coordVars, planVars, asmVars, layerVars, streamVars,
                tarVars, contentPaths, externalContentPaths>>

\* if contentBytes, found := d.contentPaths[path]; found { return .., nil };
\* return nil, fmt.Errorf("Unknown file")
GetContent(subPath) ==
  /\ Alive
  /\ dres' = [op |-> "GetContent", path |-> subPath,
              result |-> IF subPath \in DOMAIN contentPaths
                           THEN "ok" ELSE "Unknown file"]
  /\ UNCHANGED driverRest

\* !found -> "Unknown file"; os.OpenFile and Seek can fail on a known path
ReadStream(subPath) ==
  /\ Alive
  /\ \E r \in (IF subPath \in DOMAIN externalContentPaths
                 THEN {"ok", "PathNotFoundError", "InvalidOffsetError",
                       "error"}
                 ELSE {"Unknown file"}) :
       dres' = [op |-> "ReadStream", path |-> subPath, result |-> r]
  /\ UNCHANGED driverRest

\* the size of the direct data, or of the file (os.Open and Stat can fail),
\* or "Unknown file"
Stat(subPath) ==
  /\ Alive
  /\ \E r \in (IF subPath \in DOMAIN contentPaths THEN {"ok"}
               ELSE IF subPath \in DOMAIN externalContentPaths
                 THEN {"ok", "error"}
                 ELSE {"Unknown file"}) :
       dres' = [op |-> "Stat", path |-> subPath, result |-> r]
  /\ UNCHANGED driverRest

\* panic("Not supported")
PutContent(subPath) ==
  /\ Alive
  /\ dres' = [op |-> "PutContent", path |-> subPath, result |-> "panic"]
  /\ UNCHANGED driverRest

\* panic("Not supported")
WriteStream(subPath) ==
  /\ Alive
  /\ dres' = [op |-> "WriteStream", path |-> subPath, result |-> "panic"]
  /\ UNCHANGED driverRest

\* panic("Not supported")
List(subPath) ==
  /\ Alive
  /\ dres' = [op |-> "List", path |-> subPath, result |-> "panic"]
  /\ UNCHANGED driverRest

\* panic("Not supported")
Move(subPath) ==
  /\ Alive
  /\ dres' = [op |-> "Move", path |-> subPath, result |-> "panic"]
  /\ UNCHANGED driverRest

\* panic("Not supported")
Delete(subPath) ==
  /\ Alive
  /\ dres' = [op |-> "Delete", path |-> subPath, result |-> "panic"]
  /\ UNCHANGED driverRest

\* return "", storagedriver.ErrUnsupportedMethod{}
URLFor(subPath) ==
  /\ Alive
  /\ dres' = [op |-> "URLFor", path |-> subPath, result |-> "ErrUnsupportedMethod"]
  /\ UNCHANGED driverRest

NextDriver ==
  \E subPath \in RequestPaths :
    \/ GetContent(subPath)
    \/ ReadStream(subPath)
    \/ Stat(subPath)
    \/ PutContent(subPath)
    \/ WriteStream(subPath)
    \/ List(subPath)
    \/ Move(subPath)
    \/ Delete(subPath)
    \/ URLFor(subPath)

SpecDriver == InitDriver /\ [][NextDriver]_vars

\* ============================================================ buildDockerLoadTar
\* loadImage hands DockerLoad the whole manifest and the paths of the blobs
\* of the layers it waited for (dctx.layers, the selection of
\* requiredLayersAndBlobs); DockerLoad's goroutine runs buildDockerLoadTar and
\* panics on its error.
\* An entry of the tar is its folder (0: none), its file name, the layer id
\* its content is about and the blob its content is read from (0: none).
VersionFile == [dir |-> 0, file |-> "VERSION", id |-> 0, blob |-> 0]

\* repositoriesMap[hostname/remoteName] = {manifest.Tag: topLayerId}
RepositoriesFile(topLayerId) ==
  [dir |-> 0, file |-> "repositories", id |-> topLayerId, blob |-> 0]

\* writeTarFile(tw, "<id>/json", History[index].V1Compatibility)
JsonFile(layerID) == [dir |-> layerID, file |-> "json", id |-> layerID, blob |-> 0]

\* writeTarHeader(tw, "<id>/layer.tar", size); io.Copy(tw, layerFile)
LayerTarFile(layerID, blobSum) ==
  [dir |-> layerID, file |-> "layer.tar", id |-> layerID, blob |-> blobSum]

\* GetLayerInfo(manifest.History[index]).ID
GetLayerInfo(m, index) == m.History[index]

InitTar ==
  /\ ClientInit
  /\ NoBatch
  /\ NoLayerLoad /\ NoStream /\ NoDriver
  /\ manifest \in Manifests
  /\ engine \in SUBSET Blobs
  /\ option \in LayersOptions
  /\ insecureFlag = FALSE
  /\ credentials = ""
  /\ selected = requiredLayersAndBlobs(manifest, option)
  /\ Len(selected.layers) >= 1
  /\ plan = buildTorrentInfoForBlob(selected.blobs)
  /\ spawned = [i \in 1..Len(plan) |-> plan[i].id]
  /\ ppc = "batch"
  /\ dctxLayers = selected.blobs
  /\ mpc = "m_loading"
  /\ li = Len(dctxLayers) + 1
  /\ blobPaths = [b \in Range(selected.blobs) |-> b]
  /\ tw = [entries |-> <<>>, pc |-> "version", index |-> 1]

\* writeTarFile(tw, "VERSION", "1.0"); topLayerId := GetLayerInfo(History[0]).ID;
\* writeTarFile(tw, "repositories", json of the repositories map)
TarWriteHeader ==
  /\ Alive
  /\ tw.pc = "version"
  /\ tw' = [tw EXCEPT !.entries = <<VersionFile,
                                    RepositoriesFile(GetLayerInfo(manifest, 1))>>,
                      !.pc = "layers"]
  /\ UNCHANGED <<coordVars, planVars, asmVars, layerVars, streamVars,
                 driverVars>>

\* One round of for index, layer := range manifest.FSLayers: the json entry,
\* then os.Open(layerPaths[layer.BlobSum.String()]): a blob without a path
\* gives the path "" and the error is returned; else the layer.tar entry.
TarWriteLayer ==
  /\ Alive
  /\ tw.pc = "layers"
  /\ tw.index <= Len(manifest.FSLayers)
  /\ LET id == GetLayerInfo(manifest, tw.index)
         blobSum == manifest.FSLayers[tw.index]
     IN IF blobSum \in DOMAIN blobPaths
          THEN tw' = [tw EXCEPT !.entries = @ \o <<JsonFile(id),
                                                   LayerTarFile(id, blobSum)>>,
                                !.index = @ + 1]
          ELSE tw' = [tw EXCEPT !.entries = Append(@, JsonFile(id)),
                                !.pc = "error"]
  /\ UNCHANGED <<coordVars, planVars, asmVars, layerVars, streamVars,
                 driverVars>>

\* return tw.Close()
TarClose ==
  /\ Alive
  /\ tw.pc = "layers"
  /\ tw.index > Len(manifest.FSLayers)
  /\ tw' = [tw EXCEPT !.pc = "closed"]
  /\ UNCHANGED <<coordVars, planVars, asmVars, layerVars, streamVars,
                 driverVars>>

\* if terr != nil { panic(terr) }
TarPanic ==
  /\ Alive
  /\ tw.pc = "error"
  /\ exited' = "panic"
  /\ UNCHANGED <<clientVars, callVars, spc, gsErr, batchVars, imageVars>>

NextTar ==
  \/ TarWriteHeader
  \/ TarWriteLayer
  \/ TarClose
  \/ TarPanic

SpecTar == InitTar /\ [][NextTar]_vars

\* ============================================================ properties
\* Some Stop() call has run to its end (DeleteSession is its last statement).
StopReturned == sessionDeleted >= 1 /\ Alive

\* handles added for descriptor u and not removed from the swarm session
LiveHandles(u) == {h \in DOMAIN hs : hs[h].src = u /\ hs[h].removed = 0}

\* C1: no downloaded or completed channel is closed more than once, only the
\* channels of the N torrents of the batch are closed, and once every
\* per-torrent goroutine has run to its end exactly N downloaded and exactly
\* N completed channels are closed.
C1_ChannelsClosedOnce ==
  /\ \A i \in Tasks : /\ torrentDownloadedChannels[i] <= 1
                      /\ torrentCompletedChannels[i] <= 1
                      /\ i > N => /\ torrentDownloadedChannels[i] = 0
                                  /\ torrentCompletedChannels[i] = 0
  /\ (\A i \in 1..N : pc[i] = "t_done") =>
       /\ Cardinality({i \in Tasks : torrentDownloadedChannels[i] = 1}) = N
       /\ Cardinality({i \in Tasks : torrentCompletedChannels[i] = 1}) = N

C1_Witness ==
  /\ N >= 2
  /\ \A i \in 1..N : pc[i] = "t_done"
  /\ localSeedDuration = "pos"

\* C2: a task's completed channel is closed only in a state in which its
\* downloaded channel is already closed, and never while downloaded is open.
C2_DownloadedBeforeCompleted ==
  /\ [](\A i \in Tasks : torrentCompletedChannels[i] >= 1 =>
                           torrentDownloadedChannels[i] >= 1)
  /\ [][\A i \in Tasks :
          torrentCompletedChannels'[i] > torrentCompletedChannels[i] =>
            torrentDownloadedChannels[i] >= 1]_vars

C2_Witness ==
  \E i \in 1..N : /\ torrentCompletedChannels[i] = 1
                  /\ torrentDownloadedChannels[i] = 1

\* C3: whenever a task's downloaded (or completed) channel is closed, the
\* path map holds an entry for the task's id.
C3_PathSetWhenDownloaded ==
  \A i \in Tasks :
    (torrentDownloadedChannels[i] >= 1 \/ torrentCompletedChannels[i] >= 1)
      => i \in DOMAIN torrentPaths

C3_Witness ==
  \E i \in 1..N : /\ torrentDownloadedChannels[i] = 1
                  /\ torrentCompletedChannels[i] = 0
                  /\ i \in DOMAIN torrentPaths

\* C4: the aggregate channel is closed at most once and only when the
\* completed channel of every task of the batch is closed; with an empty batch
\* the waiter's loop never blocks.
C4_FinishedAfterAllCompleted ==
  /\ completed <= 1
  /\ completed >= 1 => \A i \in 1..N : torrentCompletedChannels[i] >= 1
  /\ \A i \in 1..N : wi > i => torrentCompletedChannels[i] >= 1
  /\ (N = 0 /\ Alive /\ started /\ spc["waiter"] = "w_wait") =>
       ENABLED WaiterLoop

C4_Witness ==
  /\ completed = 1
  /\ N >= 2

\* C5: a descriptor has at most one live torrent handle, which is the one the
\* task map holds; and a Download call that finds its descriptor in the map,
\* at the first or at the second check, returns the duplicate error and adds
\* nothing.
C5_NoSecondHandle ==
  /\ [](\A u \in URLs :
          /\ Cardinality(LiveHandles(u)) <= 1
          /\ LiveHandles(u) =
               IF u \in DOMAIN torrents THEN {torrents[u]} ELSE {})
  /\ [][\A p \in Tasks :
          (/\ pc[p] \in {"dl_unique", "dl_add"}
           /\ src[p] \in DOMAIN torrents
           /\ pc'[p] # pc[p])
          => /\ pc'[p] = "dl_ret"
             /\ err'[p] = "Duplicate"
             /\ torrents' = torrents
             /\ hs' = hs]_vars

C5_Witness ==
  \E p \in Tasks, q \in Tasks :
    /\ p # q
    /\ src[p] = src[q]
    /\ err[p] = "Duplicate"
    /\ pc[q] = "dl_wait"
    /\ src[q] \in DOMAIN torrents

\* C6: a Download call made while Running is false returns the not-running
\* error in that step, and changes neither the task map nor the set of
\* torrents added to the session.
C6_NotRunningRejected ==
  /\ [](\A p \in Tasks : err[p] = "NotRunning" => hnd[p] = 0)
  /\ [][\A p \in Tasks :
          (pc[p] = "idle" /\ pc'[p] # "idle" /\ ~Running)
          => /\ pc'[p] = "dl_ret"
             /\ err'[p] = "NotRunning"
             /\ torrents' = torrents
             /\ hs' = hs]_vars

C6_Witness ==
  \E p \in Tasks, q \in Tasks :
    /\ err[p] = "NotRunning"
    /\ pc[p] = "dl_ret"
    /\ err[q] = "nil"
    /\ sessionDeleted >= 1

\* C7 (as claimed): once Stop has returned, Running never becomes true again,
\* no GetStatus call succeeds and every Download call made is rejected.
C7_StoppedStaysStopped ==
  [][StopReturned =>
       /\ Running' => Running
       /\ gsErr' = "nil" => gsErr = "nil"
       /\ \A p \in Tasks : (pc[p] = "idle" /\ pc'[p] # "idle")
                             => err'[p] = "NotRunning"]_vars

\* C8 (as claimed): the discovery services are stopped and the session is
\* destroyed at most once, however often Stop is called.
C8_StopIdempotent ==
  /\ sessionDeleted <= 1
  /\ svcStops <= 1

\* C9 (as claimed): while the aggregate channel of the batch is open, Stop has
\* been invoked at most once, whatever the signal handler and the waiter do.
C9_StopInvokedOnce ==
  completed = 0 => stopCalls <= 1

\* C10 (as claimed): once Stop has returned the task map is empty.
C10_MapEmptyAfterStop ==
  StopReturned => DOMAIN torrents = {}

\* Download call p is parked on <-torrent.isFinished with the channel open.
BlockedOnFinished(p) == pc[p] = "dl_wait" /\ hs[hnd[p]].isFinished = 0

\* Per-torrent goroutine p is parked on <-keepSeeding with the channel open.
BlockedOnRelease(p) ==
  pc[p] = "t_seed" /\ localSeedDuration # "nil" /\ keepSeeding[p] = 0

\* C11 (as claimed): when the signal handler's Stop() has run and the process
\* exits, no Download call is left parked on its downloaded signal and no
\* per-torrent goroutine is left parked on its release channel: the stopped
\* session has closed them.
C11_StopReleasesTasks ==
  exited = "exit0" =>
    \A p \in 1..N : ~BlockedOnFinished(p) /\ ~BlockedOnRelease(p)

\* Download call p has returned (the per-torrent goroutine may have gone on).
Returned(p) == pc[p] \in {"dl_ret", "t_downloaded", "t_seed", "t_done"}

\* C12: a Download call with seedDuration == nil that returns a path has
\* closed its release channel, exactly once, and started no timer; the step
\* in which it returns leaves its descriptor out of the task map and its
\* handle removed from the session.
C12_NilSeedReleasedAtReturn ==
  /\ [](\A p \in Tasks :
          (seed[p] = "nil" /\ Returned(p) /\ err[p] = "nil")
            => /\ keepSeeding[p] = 1
               /\ timer[p] = "none"
               /\ hs[hnd[p]].removed >= 1)
  /\ [][\A p \in Tasks :
          (seed[p] = "nil" /\ pc[p] # "dl_ret" /\ pc'[p] = "dl_ret"
             /\ err'[p] = "nil")
            => /\ pc[p] = "dl_delete"
               /\ keepSeeding[p] = 0 /\ keepSeeding'[p] = 1
               /\ src[p] \notin DOMAIN torrents'
               /\ LiveHandles(src[p])' = {}]_vars

C12_Witness ==
  \E p \in Tasks :
    /\ seed[p] = "nil"
    /\ pc[p] = "dl_ret"
    /\ err[p] = "nil"
    /\ keepSeeding[p] = 1
    /\ sessionDeleted = 0

\* C13: a Download call with a seed duration of 0 returns the path in a step
\* that changes neither the task map, the session's torrents nor any release
\* channel, and starts no timer; while Stop() has not been called its release
\* channel is open and its task is in the map.
C13_ZeroSeedOpenUntilStop ==
  /\ [](\A p \in Tasks :
          (seed[p] = "zero" /\ stopCalls = 0)
            => /\ keepSeeding[p] = 0
               /\ timer[p] = "none"
               /\ (Returned(p) /\ err[p] = "nil")
                    => /\ src[p] \in DOMAIN torrents
                       /\ torrents[src[p]] = hnd[p]
                       /\ hs[hnd[p]].removed = 0)
  /\ [][\A p \in Tasks :
          (seed[p] = "zero" /\ pc[p] = "dl_wait" /\ pc'[p] # "dl_wait")
            => /\ pc'[p] = "dl_ret"
               /\ err'[p] = "nil"
               /\ path'[p] = src[p]
               /\ torrents' = torrents
               /\ hs' = hs
               /\ keepSeeding' = keepSeeding]_vars

C13_Witness ==
  \E p \in Tasks :
    /\ seed[p] = "zero"
    /\ pc[p] = "dl_ret"
    /\ err[p] = "nil"
    /\ keepSeeding[p] = 0
    /\ src[p] \in DOMAIN torrents
    /\ stopCalls = 0

\* Thread t runs the torrent-deleting loop of Stop() in this step.
StopDeletes(t) == spc[t] = "stop_torrents" /\ spc'[t] = "stop_session"

C15_ZeroSeedBlocksForever ==
  (localSeedDuration = "zero" /\ N >= 1) =>
    /\ stopCalls = 0 =>
         /\ \A i \in Tasks : torrentCompletedChannels[i] = 0
         /\ completed = 0
    /\ completed = 0
    /\ wi = 1 /\ spc["waiter"] = "w_wait"
    /\ stopCalls >= 1 => spc["signal"] # "sig_wait"
    /\ exited \in {"run", "exit0", "fatal", "panic", "segv"}
    /\ exited = "exit0" => spc["signal"] = "stop_ret"

C15_Witness ==
  /\ localSeedDuration = "zero"
  /\ N >= 2
  /\ \A i \in 1..N : pc[i] = "t_seed" /\ torrentDownloadedChannels[i] = 1
  /\ stopCalls = 0
  /\ ~ENABLED WaiterLoop

\* C16 (as claimed): a Download call given a negative seed duration adds no
\* torrent and does not return a path.
C16_NegativeSeedRejected ==
  \A p \in Tasks :
    (seed[p] = "neg" /\ pc[p] # "idle") => hnd[p] = 0 /\ err[p] # "nil"

\* Threads whose next statement is a call into libtorrent that the code makes
\* without holding torrentsLock: the alert consumers' WaitForAlert / PopAlert,
\* Stop()'s StopLsd .. DeleteSession, and Download's handle.TorrentFile().
UnlockedSwarmCalls ==
  Cardinality({c \in Consumers : ac[c].pc = "wait"})
  + Cardinality({t \in Stoppers : spc[t] = "stop_session"})
  + Cardinality({p \in Tasks : pc[p] = "dl_wait"
                               /\ hs[hnd[p]].isFinished >= 1})

\* Threads whose next statement is a call into libtorrent inside a
\* torrentsLock section: AddTorrent, and RemoveTorrent in deleteTorrent.
LockedSwarmCalls ==
  Cardinality({p \in Tasks : pc[p] = "dl_add" /\ src[p] \notin DOMAIN torrents})
  + Cardinality({p \in Tasks : pc[p] = "dl_delete"
                               /\ src[p] \in DOMAIN torrents})
  + Cardinality({p \in Tasks : timer[p] = "armed"
                               /\ src[p] \in DOMAIN torrents})
  + Cardinality({t \in Stoppers : spc[t] = "stop_torrents"
                                  /\ DOMAIN torrents # {}})

\* C17 (as claimed): a thread is never about to call into libtorrent outside
\* the lock while another thread is about to call into it too; the calls into
\* libtorrent are serialized.
C17_SwarmCallsSerialized ==
  Alive => (UnlockedSwarmCalls = 0 \/ UnlockedSwarmCalls + LockedSwarmCalls <= 1)

\* C18 (as claimed): no Download call is about to read the task map outside
\* the mutex while another thread is about to write the map.
C18_MapAccessUnderLock ==
  \A p \in Tasks : (Alive /\ pc[p] = "dl_read") => MapWriters(p) = 0

\* C19 (as claimed): the isFinished channel of every torrent and the release
\* channel of every Download call are closed at most once, no close panics,
\* and a release channel is closed only when the call's isFinished channel is.
C19_SignalsClosedOnceInOrder ==
  /\ \A h \in DOMAIN hs : hs[h].isFinished <= 1
  /\ \A p \in Tasks : /\ keepSeeding[p] <= 1
                      /\ keepSeeding[p] >= 1 => /\ hnd[p] # 0
                                                /\ hs[hnd[p]].isFinished >= 1
  /\ exited # "panic"

\* C20: the consumer closes the isFinished channel of the torrent of the map
\* whose handle is the alert's, and nothing else changes in that step; an
\* alert whose handle is not in the map sends the consumer back to its loop
\* with nothing closed and nothing of the session changed; no isFinished
\* channel is closed in any other way; and a Download call is past its wait
\* only when the alert of its own handle was popped and its channel closed.
C20_AlertClosesItsOwnTask ==
  /\ [](\A p \in Tasks :
          (pc[p] = "dl_delete" \/ (Returned(p) /\ err[p] = "nil"))
            => /\ hnd[p] \in posted
               /\ hs[hnd[p]].isFinished >= 1)
  /\ [](\A c \in Consumers : ac[c].pc \in {"find", "close"}
                               => ac[c].h \in posted)
  /\ [][\A c \in Consumers :
          (ac[c].pc = "find" /\ ac'[c] # ac[c])
            => /\ IF \E u \in DOMAIN torrents : torrents[u] = ac[c].h
                    THEN ac'[c] = [pc |-> "close", h |-> ac[c].h]
                    ELSE ac'[c] = [pc |-> "check", h |-> 0]
               /\ UNCHANGED <<Running, torrents, hs, sessionDeleted, svcStops,
                              posted, callVars, exited>>]_vars
  /\ [][\A h \in DOMAIN hs :
          hs'[h].isFinished # hs[h].isFinished
            => /\ \E c \in Consumers : /\ ac[c] = [pc |-> "close", h |-> h]
                                       /\ ac'[c].pc = "check"
               /\ hs'[h].isFinished = hs[h].isFinished + 1
               /\ \A g \in DOMAIN hs \ {h} : hs'[g] = hs[g]
               /\ UNCHANGED <<torrents, callVars>>]_vars

C20_Witness ==
  \E p \in Tasks, q \in Tasks :
    /\ pc[p] = "dl_ret" /\ err[p] = "nil"
    /\ pc[q] = "dl_wait"
    /\ hnd[q] \in posted
    /\ hs[hnd[q]].isFinished = 0
    /\ \A c \in Consumers : ac[c].pc \notin {"find", "close"}

\* ------------------------------------------------------------------ C22..C25
\* The indices of the history at which the engine reports the layer present
\* (the code asks HasImage about the blob sum at that index).
PresentIndices ==
  {i \in 1..Len(manifest.History) : HasImage(manifest.FSLayers[i])}

\* The smallest such index, or one past the history if there is none.
FirstPresent ==
  IF PresentIndices = {}
    THEN Len(manifest.History) + 1
    ELSE CHOOSE k \in PresentIndices : \A j \in PresentIndices : k <= j

Selected == ppc \in {"selected", "planned", "batch"}

\* C22: in Missing mode the selection returns exactly the layers and the blobs
\* of the indices before the first one the engine reports present (all of
\* them if it reports none), in order, and has queried the engine about
\* exactly the indices up to that one; in All mode it returns every history
\* entry and every blob and has made no query.
C22_SelectionIsPrefixBeforeFirstPresent ==
  Selected =>
    IF option = "AllLayers"
      THEN /\ LayerIDs(selected.layers) = manifest.History
           /\ selected.blobs = manifest.FSLayers
           /\ selected.queries = <<>>
      ELSE /\ LayerIDs(selected.layers) =
                SubSeq(manifest.History, 1, FirstPresent - 1)
           /\ selected.blobs = SubSeq(manifest.FSLayers, 1, FirstPresent - 1)
           /\ Len(selected.layers) = Len(selected.blobs)
           /\ \A i \in 1..Len(selected.layers) : selected.layers[i].index = i
           /\ Len(selected.queries) =
                IF PresentIndices = {} THEN Len(manifest.History)
                                       ELSE FirstPresent

C22_Witness ==
  /\ Selected
  /\ option = "MissingLayers"
  /\ FirstPresent > 1
  /\ FirstPresent < Len(manifest.History)
  /\ Len(selected.layers) = FirstPresent - 1

\* C23: Missing-mode selection returns no layer and no blob if and only if the
\* engine reports every history layer present, whatever the pattern of its
\* answers.
C23_EmptyIffAllPresent ==
  (Selected /\ option = "MissingLayers") =>
    ((selected.layers = <<>> /\ selected.blobs = <<>>)
       <=> PresentIndices = 1..Len(manifest.History))

\* C24: once the batch is started, every blob of the manifest is reported
\* present by the engine or is the id of exactly one download task.
C24_EveryBlobPresentOrOneTask ==
  ppc = "batch" =>
    \A i \in 1..Len(manifest.FSLayers) :
      \/ HasImage(manifest.FSLayers[i])
      \/ Cardinality({j \in 1..Len(spawned) :
                        spawned[j] = manifest.FSLayers[i]}) = 1

\* C25: the plan holds each distinct fingerprint of the blob list exactly
\* once, in order of first occurrence, with pairwise distinct ids and
\* descriptor URLs, and the batch spawns one download per distinct blob.
C25_PlanCollapsesDuplicates ==
  ppc \in {"planned", "batch"} =>
    /\ {plan[i].id : i \in 1..Len(plan)} = Range(selected.blobs)
    /\ \A i, j \in 1..Len(plan) :
         i < j => /\ plan[i].id # plan[j].id
                  /\ plan[i].torrentPath # plan[j].torrentPath
                  /\ FirstIndex(selected.blobs, plan[i].id)
                       < FirstIndex(selected.blobs, plan[j].id)
    /\ ppc = "batch" =>
         /\ Len(spawned) = Cardinality(Range(selected.blobs))
         /\ \A b \in Range(selected.blobs) :
              Cardinality({j \in 1..Len(spawned) : spawned[j] = b}) = 1

C25_Witness ==
  /\ ppc = "batch"
  /\ Len(spawned) >= 2
  /\ Len(selected.blobs) > Len(spawned)

\* ------------------------------------------------------------------ C21
\* Download returned an error to the goroutine of torrent p.
Failed(p) == err[p] \notin {"none", "nil"}

\* C21: a task whose Download returned an error never gets past the error
\* test: its path is not stored, its downloaded and completed channels and
\* the aggregate channel stay open, the main goroutine never reaches the
\* engine load and no success is reported; and the process ends fatally only
\* on such an error (or on an error of the engine load).
C21_FailedTaskStopsTheBatch ==
  /\ \A p \in Tasks :
       Failed(p) =>
         /\ pc[p] = "dl_ret"
         /\ p \notin DOMAIN torrentPaths
         /\ torrentDownloadedChannels[p] = 0
         /\ torrentCompletedChannels[p] = 0
         /\ completed = 0
         /\ mpc = "m_layers"
         /\ exited # "pulled"
  /\ exited = "fatal" => (\E p \in Tasks : Failed(p)) \/ mpc = "m_loading"

C21_Witness ==
  /\ exited = "fatal"
  /\ \E p, q \in Tasks :
       /\ Failed(p)
       /\ torrentDownloadedChannels[q] >= 1
       /\ q \in DOMAIN blobPaths

\* ------------------------------------------------------------------ C26
\* C26: while the engine load runs, and after it, the downloaded channel of
\* the blob of every selected layer is closed and blobPaths holds for it the
\* path its Download returned.
C26_LoadAfterEveryLayerDownloaded ==
  mpc \in {"m_loading", "m_done"} =>
    \A i \in 1..Len(dctxLayers) :
      /\ torrentDownloadedChannels[dctxLayers[i]] >= 1
      /\ dctxLayers[i] \in DOMAIN blobPaths
      /\ blobPaths[dctxLayers[i]] = path[dctxLayers[i]]

C26_Witness ==
  /\ mpc = "m_loading"
  /\ N >= 2
  /\ Len(dctxLayers) > N

\* ------------------------------------------------------------------ C30
\* C30: whenever the aggregate channel is closed, the waiter's Stop() has
\* returned: Running is false, the task map is empty and the session is
\* deleted.
C30_FinishedOnlyAfterStop ==
  completed >= 1 =>
    /\ stopCalls >= 1
    /\ spc["waiter"] = "w_done"
    /\ ~Running
    /\ torrents = <<>>
    /\ sessionDeleted >= 1

C30_Witness ==
  /\ completed = 1
  /\ N >= 1
  /\ \A p \in 1..N : torrentCompletedChannels[p] = 1

\* ------------------------------------------------------------------ C27
\* C27: a layer whose docker-load has begun has its blob's downloaded channel
\* closed, and the layer below it in the selection (its parent) has finished
\* its load and closed its layer-completed channel.
C27_LayerLoadAfterParentAndBlob ==
  \A i \in DOMAIN lpc :
    lpc[i] \in {"loading", "done"} =>
      /\ blobDownloadedChannels[LayerBlobSum(i)] >= 1
      /\ (i + 1) \in DOMAIN lpc =>
           /\ lpc[i + 1] = "done"
           /\ layerCompletedChannels[selected.layers[i + 1].ID] >= 1

C27_Witness ==
  /\ Len(lpc) >= 3
  /\ Len(plan) >= 2
  /\ lpc[1] = "loading"
  /\ lpc[2] = "done"

\* ------------------------------------------------------------------ C28
\* C28: the bytes Read has delivered followed by the bytes in the buffer are
\* exactly the bytes the producer has sent, which are a prefix of the bytes
\* handed to Write, so nothing is lost, duplicated or reordered; the buffer
\* never exceeds its capacity; the read count is the number of delivered
\* bytes; and Read has reported EOF only if DoneWriting was called and every
\* byte handed to Write was delivered.
C28_ReadIsPrefixOfWritten ==
  /\ rd.got \o rw.channel = SubSeq(wr.all, 1, wr.sent)
  /\ wr.sent <= Len(wr.all)
  /\ Len(rw.channel) <= ChanCap
  /\ rw.count = Len(rd.got)
  /\ rd.eof => /\ rw.closed
               /\ wr.pc = "done"
               /\ rd.got = wr.all

C28_Witness ==
  /\ rd.eof
  /\ Len(rd.got) > ChanCap
  /\ \E i, j \in 1..Len(rd.got) : rd.got[i] # rd.got[j]

\* ------------------------------------------------------------------ C29
MutatingOps == {"PutContent", "WriteStream", "Move", "Delete"}

\* C29: every call of PutContent, WriteStream, Move or Delete ends with an
\* Unsupported error result and leaves both path maps as they were.
C29_MutatingOpsReturnUnsupported ==
  [][dres'.op \in MutatingOps =>
       /\ dres'.result \in {"Unsupported", "ErrUnsupportedMethod"}
       /\ UNCHANGED <<contentPaths, externalContentPaths>>]_vars

\* ------------------------------------------------------------------ C31..C40
\* C31 (as claimed): a Download call that has returned an error has left
\* torrentsLock released, so that no later Lock() of Download, GetStatus, Stop
\* or findTorrent waits for it forever.
C31_FailedDownloadReleasesLock ==
  \A p \in Tasks : (pc[p] = "dl_ret" /\ err[p] # "nil") => ~torrentsLock

\* C32: a Download call that has returned has left no temporary descriptor
\* file behind, whether it returned a path or an error, and while the call is
\* between the descriptor fetch and its return (adding the torrent, waiting
\* for the download, removing the torrent) the file it created exists.
C32_TempFileRemovedAtReturn ==
  \A p \in Tasks :
    /\ Returned(p) => tempFile[p] # "exists"
    /\ pc[p] \in {"dl_add", "dl_read", "dl_wait", "dl_delete"}
         => tempFile[p] = "exists"

C32_Witness ==
  \E p \in Tasks, q \in Tasks :
    /\ Returned(p) /\ err[p] = "nil" /\ tempFile[p] = "none"
    /\ Returned(q) /\ err[q] \in {"Fetch", "HTTPStatus"}
    /\ tempFile[q] = "none"

\* alertsConsumer goroutines that have not left their loop
LiveConsumers == {c \in Consumers : ac[c].pc \notin {"none", "done"}}

\* C33 (as claimed): a session has at most one alertsConsumer goroutine in its
\* loop, and a consumer that tests bt.Running after Stop() has set it to false
\* leaves the loop: it does not go back to WaitForAlert.  (The consumer of the
\* first Start() is number 1; a Stop() comes after it.)
C33_ConsumerLeavesAfterStop ==
  /\ [](Cardinality(LiveConsumers) <= 1)
  /\ [][(stopCalls >= 1 /\ ac[1].pc = "check") => ac'[1].pc # "wait"]_vars

\* C34: a step in which a thread calls GetStatus, for a descriptor of the map
\* or any other, leaves the task map, every handle with its isFinished
\* channel, the release channels, the Running flag and the mutex as they
\* were; and a call for a descriptor that is not in the map returns "torrent
\* not found" without a call on a handle, so it cannot crash even on a
\* deleted session.  Nothing but GetStatus sets its error.
C34_GetStatusChangesNothing ==
  /\ [][\A u \in URLs :
          ReporterSample(u)
            => /\ UNCHANGED <<Running, torrents, hs, torrentsLock,
                              sessionDeleted, posted, ac, keepSeeding>>
               /\ u \notin DOMAIN torrents
                    => gsErr' = "notfound" /\ UNCHANGED exited]_vars
  /\ [][gsErr' # gsErr
          => UNCHANGED <<Running, torrents, hs, torrentsLock, keepSeeding>>]_vars

C34_Witness ==
  /\ gsErr = "notfound"
  /\ Running
  /\ DOMAIN torrents # {}
  /\ \E h \in DOMAIN hs : hs[h].removed = 1 /\ hs[h].src \notin DOMAIN torrents

\* The entries <id>/json, <id>/layer.tar of the history indices i..H in order.
RECURSIVE LayerEntriesFrom(_)
LayerEntriesFrom(i) ==
  IF i > Len(manifest.History)
    THEN <<>>
    ELSE <<JsonFile(manifest.History[i]),
           LayerTarFile(manifest.History[i], manifest.FSLayers[i])>>
         \o LayerEntriesFrom(i + 1)

ClosedArchiveHasAllEntries ==
  tw.pc = "closed"
    => tw.entries = <<VersionFile, RepositoriesFile(manifest.History[1])>>
                      \o LayerEntriesFrom(1)

\* C36: RemoveTorrent is called at most once on every handle AddTorrent
\* returned, whichever of Download's removal (nil seed duration), the seed
\* timer and Stop come first.
C36_HandleRemovedAtMostOnce ==
  \A h \in DOMAIN hs : hs[h].removed <= 1

\* One handle was removed by its seed timer, another by Stop before its timer
\* fired; that timer is still to come.
C36_Witness ==
  \E p \in Tasks, q \in Tasks :
    /\ timer[p] = "fired" /\ hnd[p] # 0 /\ hs[hnd[p]].removed = 1
    /\ timer[q] = "armed" /\ hnd[q] # 0 /\ hs[hnd[q]].removed = 1
    /\ \E t \in Stoppers : spc[t] \in {"stop_session", "stop_ret"}

\* C37 (as claimed): once DeleteSession has run, no thread is about to call
\* into the session or a handle of it: no alert consumer is at WaitForAlert /
\* PopAlert, no Download call is about to add a torrent, to read
\* handle.TorrentFile() after its wait or to remove its torrent, no seed timer
\* is about to remove one, and the map holds no handle GetStatus could read.
C37_NoSessionCallAfterDelete ==
  (Alive /\ sessionDeleted > 0)
    => /\ \A c \in Consumers : ac[c].pc # "wait"
       /\ \A p \in Tasks :
            /\ ~(pc[p] = "dl_add" /\ src[p] \notin DOMAIN torrents)
            /\ ~(pc[p] = "dl_wait" /\ hs[hnd[p]].isFinished >= 1)
            /\ ~(pc[p] = "dl_delete" /\ src[p] \in DOMAIN torrents)
            /\ ~(timer[p] = "armed" /\ src[p] \in DOMAIN torrents)
       /\ DOMAIN torrents = {}

\* C38 (as claimed): pool.Stop() is called at most once on the progress-bar
\* pool of a batch.
C38_PoolStoppedAtMostOnce == poolStops <= 1

\* C39 (as claimed): a pull whose selection is empty starts no Download, does
\* not enter the engine load, and ends neither in a panic nor in log.Fatal.
C39_EmptySelectionPullSucceeds ==
  Len(dctxLayers) = 0
    => /\ exited \notin {"panic", "fatal"} \/ ~started
       /\ mpc # "m_loading"
       /\ \A p \in Tasks : pc[p] = "idle"

\* C40: in the per-layer pipeline, unless a blob download or a layer load
\* fails (log.Fatal), torrentImage eventually returns with the completed
\* channel of every selected layer closed; no such channel is ever closed
\* twice and no goroutine panics.
C40_LayerPipelineTerminates ==
  /\ <>(\/ exited = "fatal"
        \/ /\ exited = "pulled"
           /\ \A id \in DOMAIN layerCompletedChannels :
                layerCompletedChannels[id] = 1)
  /\ [](\A id \in DOMAIN layerCompletedChannels : layerCompletedChannels[id] <= 1)
  /\ [](exited # "panic")

\* torrentImage has returned for at least two selected layers that share a
\* blob, the engine holding the rest of the history.
C40_Witness ==
  /\ exited = "pulled"
  /\ Len(selected.layers) >= 2
  /\ Len(plan) < Len(selected.layers)
  /\ Len(selected.layers) < Len(manifest.History)
  /\ \A i \in DOMAIN lpc : lpc[i] = "done"
====
